---------------------------- MODULE Spec2Model ----------------------------
(***************************************************************************)
(* A model of the per-partition execution engine core:                     *)
(*   - the incremental materialized-view maintainer                        *)
(*     (src/ee/storage/MaterializedViewHandler.cpp),                       *)
(*   - the undo-token operations of the engine                             *)
(*     (src/ee/execution/VoltDBEngine.h),                                  *)
(*   - the IPC command loop (src/ee/voltdbipc.cpp).                        *)
(* The specifications share the variables: Spec (view maintenance),        *)
(* SpecRaise (view maintenance with handlers ending by an exception),      *)
(* SpecUndo (undo quanta over the same tables), SpecToken (the undo-token  *)
(* calls alone), SpecIpc (command loop), SpecException (error replies of   *)
(* every length), SpecCatalog (catalog commands), SpecDep (dependency      *)
(* retrieval), SpecDesync (views that have lost a row), SpecInstall (the   *)
(* handler lists of the source tables), SpecAggregate (the aggregate setup *)
(* of a new handler), SpecLock (handler lists of replicated tables under   *)
(* the lock), SpecShim (notifications through the replicated wrapper),     *)
(* SpecStats (the per-fragment stats buffer), SpecRead (the read loop of   *)
(* main), SpecHeader (the read loop over any length header), SpecQuery     *)
(* (the parameter input of the batch command) and SpecFallback (deletes    *)
(* whose fallback plan raises).                                            *)
(***************************************************************************)
EXTENDS Integers, Sequences, FiniteSets, TLC

VARIABLES
    sourceTable,     \* the source table T(g, v): a bag of rows, row -> copies
    destTable,       \* view id -> the rows of the view's destination table
    viewFatal,       \* a handler raised the fatal "expected to find it" error
    lastOp,          \* history: the kind of the last source-table mutation
    ec,              \* the executor context around the handlers: the parameter
                     \* container, the source table's delta-mode flag, and
                     \* (history) the fallback queries of the last delete
                     \* and the fallback query that raised
    undoLog,         \* m_undoLog: the open quanta, oldest first
    currentQuantum,  \* token of m_currentUndoQuantum, or NoQuantum (nullptr)
    engineDown,      \* a failed vassert stopped the engine
    maxOpened,       \* history: the greatest token a quantum was generated for
    seq,             \* history: the last setUndoToken call, while only table
                     \* mutations have followed it
    undoCheck,       \* history: set by an undoUndoToken(t) that ends such a sequence
    ipc,             \* the command loop and its connection (SpecIpc)
    reg,             \* the view handlers and the source tables' handler lists
    stats,           \* the per-fragment stats buffer, and (history) the last batch
    rx,              \* the read loop of main: the socket, the buffer, the loop's position
    query            \* the parameter input of the last batch command (querypfs)

vars == << sourceTable, destTable, viewFatal, lastOp, ec, undoLog, currentQuantum, engineDown,
           maxOpened, seq, undoCheck, ipc, reg, stats, rx, query >>
viewVars == << sourceTable, destTable, viewFatal, lastOp, ec >>
undoVars == << undoLog, currentQuantum, engineDown >>
histVars == << maxOpened, seq, undoCheck >>

-----------------------------------------------------------------------------
(* Bounds of the model *)
MaxGroup == 2
MaxVal == 2
MaxRows == 3
MaxToken == 3
MaxQuanta == 2
MaxLogged == 1

(* NValue: <<>> is the SQL NULL, <<n>> the integer n *)
NullValue == <<>>
isNull(v) == v = NullValue
IntValue(n) == <<n>>
intOf(v) == v[1]

Groups == 1..MaxGroup
Vals == 1..MaxVal
\* a source row is <<g, v>>; g is never NULL, v may be
AllRows == { <<IntValue(g), v>> : g \in Groups,
                                  v \in {IntValue(n) : n \in Vals} \cup {NullValue} }

\* the sum of f[x] over the x in S
RECURSIVE SumOver(_, _)
SumOver(S, f) ==
    IF S = {} THEN 0
    ELSE LET x == CHOOSE y \in S : TRUE IN f[x] + SumOver(S \ {x}, f)

SetMin(S) == CHOOSE x \in S : \A y \in S : x <= y
SetMax(S) == CHOOSE x \in S : \A y \in S : x >= y

\* number of rows of a bag
BagSize(bag) == SumOver(DOMAIN bag, bag)
EmptyTable == [r \in AllRows |-> 0]
\* the bag holding one copy of row r: the delta table of one insert or delete
DeltaOf(r) == [x \in AllRows |-> IF x = r THEN 1 ELSE 0]

-----------------------------------------------------------------------------
(* The views.  Column indexes are the code's (from 0); tuples are          *)
(* sequences, so column c of tuple t is t[c + 1].                          *)
AGG_SUM == "SUM"
AGG_COUNT == "COUNT"
AGG_COUNT_STAR == "COUNT_STAR"
AGG_MIN == "MIN"
AGG_MAX == "MAX"

getNValue(t, c) == t[c + 1]

\* setUpAggregateInfo: the count-star column is the (last) destination
\* column whose aggregate type is COUNT(*)
countStarColumnIndexOf(gbc, aggTypes) ==
    LET cs == { i \in 1..Len(aggTypes) : aggTypes[i] = AGG_COUNT_STAR }
    IN  IF cs = {} THEN -1 ELSE gbc + SetMax(cs) - 1

MakeHandler(gbc, aggTypes) ==
    [ m_groupByColumnCount |-> gbc,
      m_aggColumnCount |-> Len(aggTypes),
      m_aggTypes |-> aggTypes,
      m_countStarColumnIndex |-> countStarColumnIndexOf(gbc, aggTypes) ]

\* VG: SELECT g, COUNT(*), SUM(v), COUNT(v), MIN(v), MAX(v) FROM T GROUP BY g
\* V0: SELECT MIN(v), SUM(v), COUNT(*), COUNT(v), MAX(v) FROM T
ViewIds == {"VG", "V0"}
Handler(vid) ==
    IF vid = "VG"
    THEN MakeHandler(1, <<AGG_COUNT_STAR, AGG_SUM, AGG_COUNT, AGG_MIN, AGG_MAX>>)
    ELSE MakeHandler(0, <<AGG_MIN, AGG_SUM, AGG_COUNT_STAR, AGG_COUNT, AGG_MAX>>)

\* the indexes of the view tables: the primary-key index over the group-by
\* columns (a view without group-by columns has none) and the others
NoIndex == "none"
primaryKeyIndex(vid) ==
    IF Handler(vid).m_groupByColumnCount > 0 THEN "PK" ELSE NoIndex
allIndexes(vid) ==
    (IF Handler(vid).m_groupByColumnCount > 0 THEN { "PK" } ELSE {}) \cup { "IDX_MIN", "IDX_MAX" }

\* mutant of m_updatableIndexList: no index is left out
m_updatableIndexList_All(targetIndexes, m_index) == targetIndexes

\* install, lines 149-154: the indexes of the view table other than m_index
m_updatableIndexList(targetIndexes, m_index) ==
    { index \in targetIndexes : index # m_index }

\* history of a call of updateTupleWithSpecificIndexes on view vid
updateTupleWithSpecificIndexes(vid, existingTuple, updatedTuple, indexes) ==
    [ vid |-> vid, existing |-> existingTuple, updated |-> updatedTuple,
      indexes |-> indexes ]

-----------------------------------------------------------------------------
(* The create-query of a view, run over a bag of source rows.  The plan is *)
(* compiled outside the handler; it is the SQL aggregate query.            *)
GroupRows(bag, key) == { r \in AllRows : bag[r] > 0 /\ (key = <<>> \/ <<r[1]>> = key) }
NonNullRows(bag, key) == { r \in GroupRows(bag, key) : ~isNull(r[2]) }

Aggregate(aggType, bag, key) ==
    LET all == GroupRows(bag, key)
        nn == NonNullRows(bag, key)
    IN  CASE aggType = AGG_COUNT_STAR -> IntValue(SumOver(all, bag))
          [] aggType = AGG_COUNT -> IntValue(SumOver(nn, bag))
          [] aggType = AGG_SUM ->
                IF nn = {} THEN NullValue
                ELSE IntValue(SumOver(nn, [r \in nn |-> bag[r] * intOf(r[2])]))
          [] aggType = AGG_MIN ->
                IF nn = {} THEN NullValue
                ELSE IntValue(SetMin({intOf(r[2]) : r \in nn}))
          [] aggType = AGG_MAX ->
                IF nn = {} THEN NullValue
                ELSE IntValue(SetMax({intOf(r[2]) : r \in nn}))

\* one result row per group present in the bag; exactly one row when the
\* query has no GROUP BY
CreateQuery(h, bag) ==
    LET row(key) == key \o [i \in 1..h.m_aggColumnCount |->
                                Aggregate(h.m_aggTypes[i], bag, key)]
    IN  IF h.m_groupByColumnCount = 0
        THEN { row(<<>>) }
        ELSE { row(<<r[1]>>) : r \in { x \in AllRows : bag[x] > 0 } }

\* ScopedDeltaTableContext: in delta mode a query sees the delta table only
VisibleRows(table, delta, deltaMode) == IF deltaMode THEN delta ELSE table

-----------------------------------------------------------------------------
(* NValue arithmetic and comparison: NULL is absorbing for + and -, and    *)
(* orders below every integer.                                             *)
op_add(a, b) == IF isNull(a) \/ isNull(b) THEN NullValue ELSE IntValue(intOf(a) + intOf(b))
op_subtract(a, b) == IF isNull(a) \/ isNull(b) THEN NullValue ELSE IntValue(intOf(a) - intOf(b))
compare(a, b) ==
    CASE isNull(a) /\ isNull(b) -> 0
      [] isNull(a) -> -1
      [] isNull(b) -> 1
      [] OTHER -> IF intOf(a) < intOf(b) THEN -1 ELSE IF intOf(a) > intOf(b) THEN 1 ELSE 0
isZero(a) == ~isNull(a) /\ intOf(a) = 0

NullTuple == <<>>
isNullTuple(t) == t = NullTuple
GroupKey(h, t) == SubSeq(t, 1, h.m_groupByColumnCount)

\* findExistingTuple: sets m_existingTuple and tells whether a row was found
findExistingTuple(h, table, deltaTuple) ==
    IF h.m_groupByColumnCount = 0
    THEN [ found |-> TRUE,
           tuple |-> IF table = {} THEN NullTuple ELSE CHOOSE t \in table : TRUE ]
    ELSE LET hit == { t \in table : GroupKey(h, t) = GroupKey(h, deltaTuple) }
         IN  [ found |-> hit # {},
               tuple |-> IF hit = {} THEN NullTuple ELSE CHOOSE t \in hit : TRUE ]

\* mutant of mergeTupleForInsert: the delta value replaces the existing one
\* instead of being merged into it
mergeTupleForInsert_NoMerge(h, existingTuple, deltaTuple) ==
    [ c \in 1..Len(existingTuple) |->
        IF c <= h.m_groupByColumnCount THEN existingTuple[c]
        ELSE IF isNull(deltaTuple[c]) THEN existingTuple[c] ELSE deltaTuple[c] ]

\* mergeTupleForInsert: m_updatedTuple from m_existingTuple and the delta row
mergeTupleForInsert(h, existingTuple, deltaTuple) ==
    [ c \in 1..Len(existingTuple) |->
        IF c <= h.m_groupByColumnCount
        THEN existingTuple[c]
        ELSE LET existingValue == existingTuple[c]
                 newValue == deltaTuple[c]
                 aggType == h.m_aggTypes[c - h.m_groupByColumnCount]
             IN  IF isNull(newValue) THEN existingValue
                 ELSE CASE aggType \in {AGG_SUM, AGG_COUNT, AGG_COUNT_STAR} ->
                             IF ~isNull(existingValue)
                             THEN op_add(existingValue, newValue)
                             ELSE newValue
                        [] aggType = AGG_MIN ->
                             IF ~isNull(existingValue) /\ compare(newValue, existingValue) >= 0
                             THEN existingValue
                             ELSE newValue
                        [] aggType = AGG_MAX ->
                             IF ~isNull(existingValue) /\ compare(newValue, existingValue) <= 0
                             THEN existingValue
                             ELSE newValue ]

\* the loop of handleTupleInsert over the delta rows
RECURSIVE insertDeltaRows(_, _, _)
insertDeltaRows(h, table, deltaRows) ==
    IF deltaRows = {} THEN table
    ELSE LET deltaTuple == CHOOSE d \in deltaRows : TRUE
             e == findExistingTuple(h, table, deltaTuple)
             next == IF e.found
                     THEN (table \ {e.tuple}) \cup {mergeTupleForInsert(h, e.tuple, deltaTuple)}
                     ELSE table \cup {deltaTuple}
         IN  insertDeltaRows(h, next, deltaRows \ {deltaTuple})

\* what a handler call runs into: nothing, an exception of the create-query,
\* or an exception of a write to the view table; a delete may also run into
\* an exception of its first fallback plan ("fallback")
RaiseKinds == { "none", "createQuery", "write" }

\* handleTupleInsert: the create-query runs with the source in delta mode.
\* dtContext lives on the stack: the source leaves delta mode when the call
\* ends, by return or by exception
handleTupleInsert(h, table, source, delta, raise) ==
    LET entered == TRUE
        deltaRows == CreateQuery(h, VisibleRows(source, delta, entered))
        destroyed == FALSE
    IN  IF raise = "createQuery"
        THEN [ table |-> table, raised |-> TRUE, deltaMode |-> destroyed ]
        ELSE IF raise = "write"
        THEN [ table |-> table, raised |-> TRUE, deltaMode |-> destroyed ]
        ELSE [ table |-> insertDeltaRows(h, table, deltaRows), raised |-> FALSE,
               deltaMode |-> destroyed ]

-----------------------------------------------------------------------------
(* The delete path *)

\* setUpMinMaxQueries: one fallback plan per MIN/MAX column, in column order
m_minMaxExecutorVectors(h) ==
    LET mm == { i \in 1..h.m_aggColumnCount : h.m_aggTypes[i] \in {AGG_MIN, AGG_MAX} }
        nth(k) == CHOOSE i \in mm : Cardinality({ j \in mm : j < i }) = k - 1
    IN  [ k \in 1..Cardinality(mm) |-> [ agg |-> h.m_aggTypes[nth(k)] ] ]

\* a fallback plan, run with params = group-by key values, then the current
\* extremum: SELECT MIN(v) FROM T WHERE g = ? AND v >= ?  (MAX: v <= ?);
\* the result rows of the plan (no row, or one scalar)
ExecuteFallbackPlan(plan, params, gbc, visible) ==
    LET key == SubSeq(params, 1, gbc)
        bound == params[gbc + 1]
        vals == { intOf(r[2]) : r \in
                    { x \in NonNullRows(visible, key) :
                        IF plan.agg = AGG_MIN THEN compare(x[2], bound) >= 0
                                              ELSE compare(x[2], bound) <= 0 } }
    IN  IF vals = {} THEN { <<NullValue>> }
        ELSE IF plan.agg = AGG_MIN THEN { <<IntValue(SetMin(vals))>> }
        ELSE { <<IntValue(SetMax(vals))>> }

\* the engine's parameter container as a statement left it
MaxParams == 3
InitialParams == [ i \in 1..MaxParams |-> IntValue(MaxVal + i) ]

\* fallbackMinMaxColumn, lines 430-436: the entries 0..m_groupByColumnCount
\* are saved, then set to the group-by key and the current extremum
backupParams(h, params) == [ i \in 1..(h.m_groupByColumnCount + 1) |-> params[i] ]
fillParams(h, existingTuple, columnIndex, params) ==
    [ i \in 1..Len(params) |->
        IF i <= h.m_groupByColumnCount THEN getNValue(existingTuple, i - 1)
        ELSE IF i = h.m_groupByColumnCount + 1 THEN getNValue(existingTuple, columnIndex)
        ELSE params[i] ]

\* lines 447-449: the saved entries are put back
restoreParams(h, params, backups) ==
    [ i \in 1..Len(params) |->
        IF i <= h.m_groupByColumnCount + 1 THEN backups[i] ELSE params[i] ]

\* mutant of fallbackMinMaxColumn: the last saved entry is not put back
fallbackMinMaxColumn_NoRestore(h, existingTuple, columnIndex, minMaxColumnIndex, visible, params) ==
    LET backups == backupParams(h, params)
        during == fillParams(h, existingTuple, columnIndex, params)
        result == ExecuteFallbackPlan(m_minMaxExecutorVectors(h)[minMaxColumnIndex + 1],
                                      during, h.m_groupByColumnCount, visible)
    IN  [ newValue |-> IF result = {} THEN NullValue
                       ELSE getNValue(CHOOSE t \in result : TRUE, 0),
          before |-> params, during |-> during, result |-> result, visible |-> visible,
          existingTuple |-> existingTuple, columnIndex |-> columnIndex,
          groupByColumnCount |-> h.m_groupByColumnCount,
          minMaxColumnIndex |-> minMaxColumnIndex,
          plan |-> m_minMaxExecutorVectors(h)[minMaxColumnIndex + 1],
          params |-> [ restoreParams(h, during, backups)
                         EXCEPT ![h.m_groupByColumnCount + 1] = during[h.m_groupByColumnCount + 1] ] ]

\* fallbackMinMaxColumn: the new extremum of column columnIndex (newValue)
\* and the parameter container after the call (params), with what the call
\* saw on its way
fallbackMinMaxColumn(h, existingTuple, columnIndex, minMaxColumnIndex, visible, params) ==
    LET backups == backupParams(h, params)
        during == fillParams(h, existingTuple, columnIndex, params)
        result == ExecuteFallbackPlan(m_minMaxExecutorVectors(h)[minMaxColumnIndex + 1],
                                      during, h.m_groupByColumnCount, visible)
    IN  [ newValue |-> IF result = {} THEN NullValue
                       ELSE getNValue(CHOOSE t \in result : TRUE, 0),
          before |-> params, during |-> during, result |-> result, visible |-> visible,
          existingTuple |-> existingTuple, columnIndex |-> columnIndex,
          groupByColumnCount |-> h.m_groupByColumnCount,
          minMaxColumnIndex |-> minMaxColumnIndex,
          plan |-> m_minMaxExecutorVectors(h)[minMaxColumnIndex + 1],
          params |-> restoreParams(h, during, backups) ]

\* mutant of paramsAtThrow: the saved entries are put back on the way out
paramsAtThrow_Restored(h, existingTuple, columnIndex, params) ==
    restoreParams(h, fillParams(h, existingTuple, columnIndex, params),
                  backupParams(h, params))

\* fallbackMinMaxColumn left by an exception of executeExecutors: the
\* parameter container as the exception leaves it; backups is a local
\* vector and nothing on the way out copies it back
paramsAtThrow(h, existingTuple, columnIndex, params) ==
    fillParams(h, existingTuple, columnIndex, params)

\* minMaxColumnIndex when the loop of mergeTupleForDelete is at aggIndex:
\* 0 at the start, and one more behind every column of type MIN or MAX
RECURSIVE minMaxColumnIndexAt(_, _)

\* mutant of minMaxColumnIndexAt: the counter is never incremented
minMaxColumnIndexAt_NeverIncremented(h, aggIndex) == 0

minMaxColumnIndexAt(h, aggIndex) ==
    IF aggIndex = 0 THEN 0
    ELSE minMaxColumnIndexAt(h, aggIndex - 1) +
         (IF h.m_aggTypes[aggIndex] \in {AGG_MIN, AGG_MAX} THEN 1 ELSE 0)

\* mutant of mergeTupleForDelete: a MIN or MAX column keeps its value, the
\* fallback query is never run
mergeTupleForDelete_NoFallback(h, existingTuple, deltaTuple, visible) ==
    LET existingCount == getNValue(existingTuple, h.m_countStarColumnIndex)
        deltaCount == getNValue(deltaTuple, h.m_countStarColumnIndex)
        newCount == op_subtract(existingCount, deltaCount)
    IN  [ c \in 1..Len(existingTuple) |->
            IF c <= h.m_groupByColumnCount
            THEN existingTuple[c]
            ELSE LET aggIndex == c - 1 - h.m_groupByColumnCount
                     aggType == h.m_aggTypes[aggIndex + 1]
                     existingValue == existingTuple[c]
                     deltaValue == deltaTuple[c]
                 IN  IF isZero(newCount)
                     THEN IF aggType \in {AGG_COUNT, AGG_COUNT_STAR}
                          THEN IntValue(0)
                          ELSE NullValue
                     ELSE IF isNull(deltaValue) THEN existingValue
                     ELSE CASE aggType \in {AGG_COUNT_STAR, AGG_SUM, AGG_COUNT} ->
                                 op_subtract(existingValue, deltaValue)
                            [] aggType \in {AGG_MIN, AGG_MAX} ->
                                 existingValue ]

\* mergeTupleForDelete: m_updatedTuple from m_existingTuple and the delta row
mergeTupleForDelete(h, existingTuple, deltaTuple, visible) ==
    LET existingCount == getNValue(existingTuple, h.m_countStarColumnIndex)
        deltaCount == getNValue(deltaTuple, h.m_countStarColumnIndex)
        newCount == op_subtract(existingCount, deltaCount)
    IN  [ c \in 1..Len(existingTuple) |->
            IF c <= h.m_groupByColumnCount
            THEN existingTuple[c]
            ELSE LET aggIndex == c - 1 - h.m_groupByColumnCount
                     aggType == h.m_aggTypes[aggIndex + 1]
                     existingValue == existingTuple[c]
                     deltaValue == deltaTuple[c]
                 IN  IF isZero(newCount)
                     THEN IF aggType \in {AGG_COUNT, AGG_COUNT_STAR}
                          THEN IntValue(0)
                          ELSE NullValue
                     ELSE IF isNull(deltaValue) THEN existingValue
                     ELSE CASE aggType \in {AGG_COUNT_STAR, AGG_SUM, AGG_COUNT} ->
                                 op_subtract(existingValue, deltaValue)
                            [] aggType \in {AGG_MIN, AGG_MAX} ->
                                 IF compare(existingValue, deltaValue) = 0
                                 THEN fallbackMinMaxColumn(h, existingTuple, c - 1,
                                          minMaxColumnIndexAt(h, aggIndex), visible,
                                          ec.params).newValue
                                 ELSE existingValue ]

\* the loop of handleTupleDelete over the delta rows; ends at the fatal error
RECURSIVE deleteDeltaRows(_, _, _, _)

\* mutant of deleteDeltaRows: the row is deleted whenever the counts are
\* equal, also in a view without group-by columns
deleteDeltaRows_NoGroupByCheck(h, table, deltaRows, visible) ==
    IF deltaRows = {} THEN [ table |-> table, fatal |-> FALSE ]
    ELSE LET deltaTuple == CHOOSE d \in deltaRows : TRUE
             e == findExistingTuple(h, table, deltaTuple)
         IN  IF ~e.found \/ isNullTuple(e.tuple)
             THEN [ table |-> table, fatal |-> TRUE ]
             ELSE LET existingCount == getNValue(e.tuple, h.m_countStarColumnIndex)
                      deltaCount == getNValue(deltaTuple, h.m_countStarColumnIndex)
                      next == IF compare(existingCount, deltaCount) = 0
                              THEN table \ {e.tuple}
                              ELSE (table \ {e.tuple}) \cup
                                   {mergeTupleForDelete(h, e.tuple, deltaTuple, visible)}
                  IN  deleteDeltaRows(h, next, deltaRows \ {deltaTuple}, visible)

\* mutant of deleteDeltaRows: a delta row without a view row is passed over
deleteDeltaRows_SkipsMissing(h, table, deltaRows, visible) ==
    IF deltaRows = {} THEN [ table |-> table, fatal |-> FALSE ]
    ELSE LET deltaTuple == CHOOSE d \in deltaRows : TRUE
             e == findExistingTuple(h, table, deltaTuple)
         IN  IF ~e.found \/ isNullTuple(e.tuple)
             THEN deleteDeltaRows(h, table, deltaRows \ {deltaTuple}, visible)
             ELSE LET existingCount == getNValue(e.tuple, h.m_countStarColumnIndex)
                      deltaCount == getNValue(deltaTuple, h.m_countStarColumnIndex)
                      next == IF compare(existingCount, deltaCount) = 0
                                 /\ h.m_groupByColumnCount > 0
                              THEN table \ {e.tuple}
                              ELSE (table \ {e.tuple}) \cup
                                   {mergeTupleForDelete(h, e.tuple, deltaTuple, visible)}
                  IN  deleteDeltaRows(h, next, deltaRows \ {deltaTuple}, visible)

deleteDeltaRows(h, table, deltaRows, visible) ==
    IF deltaRows = {} THEN [ table |-> table, fatal |-> FALSE ]
    ELSE LET deltaTuple == CHOOSE d \in deltaRows : TRUE
             e == findExistingTuple(h, table, deltaTuple)
         IN  IF ~e.found \/ isNullTuple(e.tuple)
             THEN [ table |-> table, fatal |-> TRUE ]
             ELSE LET existingCount == getNValue(e.tuple, h.m_countStarColumnIndex)
                      deltaCount == getNValue(deltaTuple, h.m_countStarColumnIndex)
                      next == IF compare(existingCount, deltaCount) = 0
                                 /\ h.m_groupByColumnCount > 0
                              THEN table \ {e.tuple}
                              ELSE (table \ {e.tuple}) \cup
                                   {mergeTupleForDelete(h, e.tuple, deltaTuple, visible)}
                  IN  deleteDeltaRows(h, next, deltaRows \ {deltaTuple}, visible)

\* the one element of a singleton set
Only(S) == CHOOSE x \in S : TRUE

\* the fallback queries mergeTupleForDelete runs for delta row deltaTuple,
\* from column aggIndex on; acc: the calls so far and the parameter container
RECURSIVE fallbackCallsOfRow(_, _, _, _, _, _)
fallbackCallsOfRow(h, existingTuple, deltaTuple, aggIndex, visible, acc) ==
    IF aggIndex >= h.m_aggColumnCount THEN acc
    ELSE LET columnIndex == h.m_groupByColumnCount + aggIndex
             existingValue == getNValue(existingTuple, columnIndex)
             deltaValue == getNValue(deltaTuple, columnIndex)
             newCount == op_subtract(getNValue(existingTuple, h.m_countStarColumnIndex),
                                     getNValue(deltaTuple, h.m_countStarColumnIndex))
             runs == /\ ~isZero(newCount)
                     /\ ~isNull(deltaValue)
                     /\ h.m_aggTypes[aggIndex + 1] \in {AGG_MIN, AGG_MAX}
                     /\ compare(existingValue, deltaValue) = 0
             next == IF runs
                     THEN { [ log |-> Append(acc.log, call), params |-> call.params ] :
                              call \in { fallbackMinMaxColumn(h, existingTuple, columnIndex,
                                            minMaxColumnIndexAt(h, aggIndex), visible,
                                            acc.params) } }
                     ELSE { acc }
         IN  Only({ fallbackCallsOfRow(h, existingTuple, deltaTuple, aggIndex + 1,
                                       visible, n) : n \in next })

\* the fallback queries of the loop of handleTupleDelete, in order
RECURSIVE fallbackCalls(_, _, _, _, _)
fallbackCalls(h, table, deltaRows, visible, acc) ==
    IF deltaRows = {} THEN acc
    ELSE LET deltaTuple == CHOOSE d \in deltaRows : TRUE
             e == findExistingTuple(h, table, deltaTuple)
         IN  IF ~e.found \/ isNullTuple(e.tuple) THEN acc
             ELSE IF compare(getNValue(e.tuple, h.m_countStarColumnIndex),
                             getNValue(deltaTuple, h.m_countStarColumnIndex)) = 0
                     /\ h.m_groupByColumnCount > 0
             THEN fallbackCalls(h, table, deltaRows \ {deltaTuple}, visible, acc)
             ELSE Only({ fallbackCalls(h, table, deltaRows \ {deltaTuple}, visible, n) :
                           n \in { fallbackCallsOfRow(h, e.tuple, deltaTuple, 0,
                                                      visible, acc) } })

\* the row updates of the loop of handleTupleInsert, in order
RECURSIVE insertUpdates(_, _, _)
insertUpdates(vid, table, deltaRows) ==
    IF deltaRows = {} THEN <<>>
    ELSE LET h == Handler(vid)
             deltaTuple == CHOOSE d \in deltaRows : TRUE
             e == findExistingTuple(h, table, deltaTuple)
         IN  IF e.found
             THEN Only({ << updateTupleWithSpecificIndexes(vid, e.tuple, u,
                                m_updatableIndexList(allIndexes(vid), primaryKeyIndex(vid))) >>
                         \o insertUpdates(vid, (table \ {e.tuple}) \cup {u},
                                          deltaRows \ {deltaTuple}) :
                         u \in { mergeTupleForInsert(h, e.tuple, deltaTuple) } })
             ELSE insertUpdates(vid, table \cup {deltaTuple}, deltaRows \ {deltaTuple})

\* the row updates of the loop of handleTupleDelete, in order
RECURSIVE deleteUpdates(_, _, _, _)
deleteUpdates(vid, table, deltaRows, visible) ==
    IF deltaRows = {} THEN <<>>
    ELSE LET h == Handler(vid)
             deltaTuple == CHOOSE d \in deltaRows : TRUE
             e == findExistingTuple(h, table, deltaTuple)
         IN  IF ~e.found \/ isNullTuple(e.tuple) THEN <<>>
             ELSE IF compare(getNValue(e.tuple, h.m_countStarColumnIndex),
                             getNValue(deltaTuple, h.m_countStarColumnIndex)) = 0
                     /\ h.m_groupByColumnCount > 0
             THEN deleteUpdates(vid, table \ {e.tuple}, deltaRows \ {deltaTuple}, visible)
             ELSE Only({ << updateTupleWithSpecificIndexes(vid, e.tuple, u,
                                m_updatableIndexList(allIndexes(vid), primaryKeyIndex(vid))) >>
                         \o deleteUpdates(vid, (table \ {e.tuple}) \cup {u},
                                          deltaRows \ {deltaTuple}, visible) :
                         u \in { mergeTupleForDelete(h, e.tuple, deltaTuple, visible) } })

\* mutant of handleTupleDelete: dtContext is deleted after the loop only
handleTupleDelete_DeltaModeKept(h, table, source, delta, raise, params) ==
    LET entered == TRUE
        deltaRows == CreateQuery(h, VisibleRows(source, delta, entered))
        visible == VisibleRows(source, delta, entered)
        deleted == FALSE
        res == deleteDeltaRows(h, table, deltaRows, visible)
        calls == fallbackCalls(h, table, deltaRows, visible,
                               [ log |-> <<>>, params |-> params ])
    IN  IF raise = "createQuery"
        THEN [ table |-> table, fatal |-> FALSE, raised |-> TRUE, deltaMode |-> entered,
               params |-> params, log |-> <<>>, thrown |-> <<>> ]
        ELSE Only({ IF raise = "write"
                    THEN [ table |-> table, fatal |-> FALSE, raised |-> TRUE,
                           deltaMode |-> deleted, params |-> c.params, log |-> c.log,
                           thrown |-> <<>> ]
                    ELSE [ table |-> r.table, fatal |-> r.fatal, raised |-> FALSE,
                           deltaMode |-> deleted, params |-> c.params, log |-> c.log,
                           thrown |-> <<>> ] :
                    r \in { res }, c \in { calls } })

\* handleTupleDelete: the create-query runs in delta mode; dtContext is a
\* heap object that the code deletes after the create-query and before the
\* loop, so a fallback sees the whole source; an exception of the
\* create-query leaves the function before that delete
handleTupleDelete(h, table, source, delta, raise, params) ==
    LET entered == TRUE
        deltaRows == CreateQuery(h, VisibleRows(source, delta, entered))
        deleted == FALSE
        visible == VisibleRows(source, delta, deleted)
        res == deleteDeltaRows(h, table, deltaRows, visible)
        calls == fallbackCalls(h, table, deltaRows, visible,
                               [ log |-> <<>>, params |-> params ])
    IN  IF raise = "createQuery"
        THEN [ table |-> table, fatal |-> FALSE, raised |-> TRUE, deltaMode |-> entered,
               params |-> params, log |-> <<>>, thrown |-> <<>> ]
        ELSE Only({ IF raise = "write"
                    THEN [ table |-> table, fatal |-> FALSE, raised |-> TRUE,
                           deltaMode |-> deleted, params |-> c.params, log |-> c.log,
                           thrown |-> <<>> ]
                    ELSE IF raise = "fallback" /\ c.log # <<>>
                    THEN [ table |-> table, fatal |-> FALSE, raised |-> TRUE,
                           deltaMode |-> deleted,
                           params |-> paramsAtThrow(h, c.log[1].existingTuple,
                                                    c.log[1].columnIndex, c.log[1].before),
                           log |-> <<>>, thrown |-> << c.log[1] >> ]
                    ELSE [ table |-> r.table, fatal |-> r.fatal, raised |-> FALSE,
                           deltaMode |-> deleted, params |-> c.params, log |-> c.log,
                           thrown |-> <<>> ] :
                    r \in { res }, c \in { calls } })

\* catchUpWithExistingData: the create-query result goes into the view
catchUpWithExistingData(h, table, source) == table \cup CreateQuery(h, source)

-----------------------------------------------------------------------------
(* Source-table mutations and the notifications they trigger *)

InitialViews == [ vid \in ViewIds |-> catchUpWithExistingData(Handler(vid), {}, EmptyTable) ]

\* the tables after the insert of row r into source: every attached handler
\* is notified
InsertInto(source, dest, r) ==
    LET newSource == [source EXCEPT ![r] = @ + 1]
    IN  [ source |-> newSource,
          dest |-> [ vid \in ViewIds |->
                      handleTupleInsert(Handler(vid), dest[vid], newSource, DeltaOf(r),
                                        "none").table ],
          fatal |-> FALSE ]

\* the handlers of the source table in the order they are notified, and the
\* exception a mutation runs into: none, or one of kind raise.kind in the
\* handler of view raise.at
FirstView == "VG"
LastView == "V0"
NoRaise == [ at |-> "none", kind |-> "none" ]
RaiseChoices == { NoRaise } \cup
                { [ at |-> vid, kind |-> k ] : vid \in ViewIds, k \in RaiseKinds \ {"none"} }
RaiseIn(raise, vid) == IF raise.at = vid THEN raise.kind ELSE "none"

EcInit == [ params |-> InitialParams, deltaMode |-> FALSE, log |-> <<>>, thrown |-> <<>> ]

\* the tables and the executor context after the insert of row r: a handler
\* that raises ends the statement, whose writes are rolled back
TablesAfterInsert(r, raise) ==
    LET newSource == [sourceTable EXCEPT ![r] = @ + 1]
        res == [ vid \in ViewIds |->
                   handleTupleInsert(Handler(vid), destTable[vid], newSource, DeltaOf(r),
                                     RaiseIn(raise, vid)) ]
        raised == \E vid \in ViewIds : res[vid].raised
        lastRun == IF res[FirstView].raised THEN FirstView ELSE LastView
    IN  [ source |-> IF raised THEN sourceTable ELSE newSource,
          dest |-> IF raised THEN destTable ELSE [ vid \in ViewIds |-> res[vid].table ],
          fatal |-> FALSE,
          raised |-> raised,
          ec |-> [ params |-> ec.params, deltaMode |-> res[lastRun].deltaMode,
                   log |-> <<>>, thrown |-> <<>> ] ]

\* the tables and the executor context after the delete of one copy of row r
TablesAfterDelete(r, raise) ==
    LET newSource == [sourceTable EXCEPT ![r] = @ - 1]
        outcome(first, last) ==
            LET stopped == first.raised \/ first.fatal
                raised == first.raised \/ (~stopped /\ last.raised)
            IN  [ source |-> IF raised THEN sourceTable ELSE newSource,
                  dest |-> IF raised THEN destTable
                           ELSE [ vid \in ViewIds |->
                                    IF vid = FirstView THEN first.table
                                    ELSE IF stopped THEN destTable[vid] ELSE last.table ],
                  fatal |-> first.fatal \/ (~stopped /\ last.fatal),
                  raised |-> raised,
                  ec |-> IF stopped
                         THEN [ params |-> first.params, deltaMode |-> first.deltaMode,
                                log |-> first.log, thrown |-> first.thrown ]
                         ELSE [ params |-> last.params, deltaMode |-> last.deltaMode,
                                log |-> first.log \o last.log,
                                thrown |-> last.thrown ] ]
    IN  Only(UNION {
          { outcome(first, last) :
              last \in { handleTupleDelete(Handler(LastView), destTable[LastView],
                             newSource, DeltaOf(r), RaiseIn(raise, LastView),
                             first.params) } } :
          first \in { handleTupleDelete(Handler(FirstView), destTable[FirstView],
                          newSource, DeltaOf(r), RaiseIn(raise, FirstView), ec.params) } })

InsertTuple(r, raise) ==
    /\ ~viewFatal
    /\ BagSize(sourceTable) < MaxRows
    /\ \E t \in { TablesAfterInsert(r, raise) } :
           /\ sourceTable' = t.source
           /\ destTable' = t.dest
           /\ viewFatal' = t.fatal
           /\ ec' = t.ec
           /\ lastOp' = IF t.raised THEN "failed" ELSE "insert"
    /\ UNCHANGED << undoVars, histVars, ipc, reg, stats, rx, query >>

DeleteTuple(r, raise) ==
    /\ ~viewFatal
    /\ sourceTable[r] > 0
    /\ \E t \in { TablesAfterDelete(r, raise) } :
           /\ sourceTable' = t.source
           /\ destTable' = t.dest
           /\ viewFatal' = t.fatal
           /\ ec' = t.ec
           /\ lastOp' = IF t.raised THEN "failed" ELSE "delete"
    /\ UNCHANGED << undoVars, histVars, ipc, reg, stats, rx, query >>

\* every group of the source table has its row in each view, with the
\* group's number of rows in the COUNT(*) column
GroupsPresent ==
    \A vid \in ViewIds : \A r \in AllRows :
        (Handler(vid).m_groupByColumnCount > 0 /\ sourceTable[r] > 0) =>
            \E x \in destTable[vid] :
                /\ GroupKey(Handler(vid), x) = << r[1] >>
                /\ getNValue(x, Handler(vid).m_countStarColumnIndex) =
                      IntValue(SumOver(GroupRows(sourceTable, << r[1] >>), sourceTable))

\* corruption of a view with group-by columns: the row t goes missing from
\* the view table while the source table keeps the rows of its group; one
\* row is missing at a time
LoseViewRow(vid, t) ==
    /\ ~viewFatal
    /\ Handler(vid).m_groupByColumnCount > 0
    /\ t \in destTable[vid]
    /\ GroupsPresent
    /\ destTable' = [destTable EXCEPT ![vid] = @ \ {t}]
    /\ lastOp' = "corrupt"
    /\ UNCHANGED << sourceTable, viewFatal, ec, undoVars, histVars, ipc, reg, stats, rx, query >>

-----------------------------------------------------------------------------
(* Undo quanta.  setUndoToken is the engine's; the undo log behind it      *)
(* (generate, register, release, undo) follows the engine's contract:      *)
(* release(t) finalizes the quanta with token <= t, undo(t) runs the       *)
(* inverse actions of the quanta with token >= t, newest first.            *)

NoQuantum == 0
\* stands for the greatest 64-bit integer: above every token of the model
INT64_MAX == 99
TokenArgs == (1..MaxToken) \cup {INT64_MAX}

generateUndoQuantum(log, nextUndoToken) ==
    Append(log, [ token |-> nextUndoToken, actions |-> <<>> ])

\* mutant of setUndoToken: with a quantum current, every call returns early
setUndoToken_KeepsCurrent(log, current, nextUndoToken, assertsOn) ==
    IF nextUndoToken = INT64_MAX \/ current # NoQuantum
    THEN [ log |-> log, current |-> current, down |-> FALSE ]
    ELSE [ log |-> generateUndoQuantum(log, nextUndoToken),
           current |-> nextUndoToken, down |-> FALSE ]

\* setUndoToken: the undo log and the current quantum after the call, and
\* whether the vassert stopped the engine (it does only when it is compiled
\* in: assertsOn)
setUndoToken(log, current, nextUndoToken, assertsOn) ==
    IF nextUndoToken = INT64_MAX
    THEN [ log |-> log, current |-> current, down |-> FALSE ]
    ELSE IF current # NoQuantum /\ current = nextUndoToken
    THEN [ log |-> log, current |-> current, down |-> FALSE ]
    ELSE IF current # NoQuantum /\ assertsOn /\ ~(nextUndoToken > current)
    THEN [ log |-> log, current |-> current, down |-> TRUE ]
    ELSE [ log |-> generateUndoQuantum(log, nextUndoToken),
           current |-> nextUndoToken, down |-> FALSE ]

\* the inverse actions one mutation registers: one per table it wrote
SourceUndoAction(r, copies) == [ tbl |-> "T", row |-> r, copies |-> copies ]
ViewUndoAction(vid, before, after) ==
    [ tbl |-> vid, remove |-> after \ before, insert |-> before \ after ]
UndoActionsFor(r, copies, before, after) ==
    << SourceUndoAction(r, copies),
       ViewUndoAction("VG", before["VG"], after.dest["VG"]),
       ViewUndoAction("V0", before["V0"], after.dest["V0"]) >>
UndoActionsOf(r, copies, after) == UndoActionsFor(r, copies, destTable, after)

\* registerUndoAction: into the current quantum, the newest of the log
registerUndoActions(log, actions) ==
    [ log EXCEPT ![Len(log)].actions = @ \o actions ]

LoggedActions(log) == SumOver(DOMAIN log, [ i \in DOMAIN log |-> Len(log[i].actions) ])

ApplyUndoAction(a, tables) ==
    IF a.tbl = "T"
    THEN [ tables EXCEPT !.source[a.row] = @ + a.copies ]
    ELSE [ tables EXCEPT !.dest[a.tbl] = (@ \ a.remove) \cup a.insert ]

\* the inverse actions of one quantum, in reverse insertion order
RECURSIVE UndoQuantumActions(_, _)
UndoQuantumActions(actions, tables) ==
    IF actions = <<>> THEN tables
    ELSE UndoQuantumActions(SubSeq(actions, 1, Len(actions) - 1),
                            ApplyUndoAction(actions[Len(actions)], tables))

\* undo(t) on the log: the quanta with token >= undoToken, newest first
RECURSIVE UndoLogUndo(_, _, _)
UndoLogUndo(log, undoToken, tables) ==
    IF log = <<>> THEN tables
    ELSE LET q == log[Len(log)]
             rest == SubSeq(log, 1, Len(log) - 1)
         IN  IF q.token >= undoToken
             THEN UndoLogUndo(rest, undoToken, UndoQuantumActions(q.actions, tables))
             ELSE UndoLogUndo(rest, undoToken, tables)

KeepQuanta(log, keep) == SelectSeq(log, LAMBDA q : q.token \in keep)
TokensOf(log) == { log[i].token : i \in DOMAIN log }

\* releaseUndoToken: the quanta with token <= undoToken are finalized
releaseUndoToken(log, current, undoToken) ==
    [ log |-> KeepQuanta(log, { u \in TokensOf(log) : u > undoToken }),
      current |-> IF current # NoQuantum /\ current <= undoToken
                  THEN NoQuantum ELSE current ]

\* undoUndoToken: the quanta with token >= undoToken are undone and discarded
undoUndoToken(log, current, undoToken, tables) ==
    [ log |-> KeepQuanta(log, { u \in TokensOf(log) : u < undoToken }),
      current |-> IF current # NoQuantum /\ current >= undoToken
                  THEN NoQuantum ELSE current,
      tables |-> UndoLogUndo(log, undoToken, tables) ]

-----------------------------------------------------------------------------
(* Engine calls of SpecUndo *)

Tables == [ source |-> sourceTable, dest |-> destTable ]
NoSeq == [ token |-> NoQuantum, before |-> <<>>, opened |-> FALSE ]
NoCheck == [ pending |-> FALSE, opened |-> FALSE, restored |-> FALSE ]
\* the rows the undoable mutations write
UndoRows == { << IntValue(1), IntValue(1) >> }

SetUndoToken(t) ==
    /\ ~engineDown /\ ~viewFatal
    /\ \E assertsOn \in BOOLEAN :
         LET r == setUndoToken(undoLog, currentQuantum, t, assertsOn)
             opened == r.log # undoLog
         IN  /\ Len(r.log) <= MaxQuanta
             /\ undoLog' = r.log
             /\ currentQuantum' = r.current
             /\ engineDown' = r.down
             /\ maxOpened' = IF opened /\ t > maxOpened THEN t ELSE maxOpened
             /\ seq' = IF r.down THEN NoSeq
                       ELSE [ token |-> t, before |-> Tables, opened |-> opened ]
    /\ undoCheck' = NoCheck
    /\ UNCHANGED << viewVars, ipc, reg, stats, rx, query >>

\* a table mutation under the current quantum; without one, registering the
\* inverse action fails and nothing is written
UndoableInsert(r) ==
    /\ ~engineDown /\ ~viewFatal
    /\ currentQuantum # NoQuantum
    /\ BagSize(sourceTable) < MaxRows
    /\ LoggedActions(undoLog) < 3 * MaxLogged
    /\ LET t == TablesAfterInsert(r, NoRaise)
       IN  /\ sourceTable' = t.source
           /\ destTable' = t.dest
           /\ viewFatal' = t.fatal
           /\ ec' = t.ec
           /\ undoLog' = registerUndoActions(undoLog, UndoActionsOf(r, -1, t))
    /\ lastOp' = "insert"
    /\ undoCheck' = NoCheck
    /\ UNCHANGED << currentQuantum, engineDown, maxOpened, seq, ipc, reg, stats, rx, query >>

UndoableDelete(r) ==
    /\ ~engineDown /\ ~viewFatal
    /\ currentQuantum # NoQuantum
    /\ sourceTable[r] > 0
    /\ LoggedActions(undoLog) < 3 * MaxLogged
    /\ LET t == TablesAfterDelete(r, NoRaise)
       IN  /\ sourceTable' = t.source
           /\ destTable' = t.dest
           /\ viewFatal' = t.fatal
           /\ ec' = t.ec
           /\ undoLog' = registerUndoActions(undoLog, UndoActionsOf(r, 1, t))
    /\ lastOp' = "delete"
    /\ undoCheck' = NoCheck
    /\ UNCHANGED << currentQuantum, engineDown, maxOpened, seq, ipc, reg, stats, rx, query >>

ReleaseUndoToken(t) ==
    /\ ~engineDown /\ ~viewFatal
    /\ LET r == releaseUndoToken(undoLog, currentQuantum, t)
       IN  /\ undoLog' = r.log
           /\ currentQuantum' = r.current
    /\ seq' = NoSeq
    /\ undoCheck' = NoCheck
    /\ UNCHANGED << viewVars, engineDown, maxOpened, ipc, reg, stats, rx, query >>

UndoUndoToken(t) ==
    /\ ~engineDown /\ ~viewFatal
    /\ LET r == undoUndoToken(undoLog, currentQuantum, t, Tables)
       IN  /\ undoLog' = r.log
           /\ currentQuantum' = r.current
           /\ sourceTable' = r.tables.source
           /\ destTable' = r.tables.dest
    /\ lastOp' = "undo"
    /\ undoCheck' = IF seq.token = t
                     THEN [ pending |-> TRUE, opened |-> seq.opened,
                            restored |-> (sourceTable' = seq.before.source
                                          /\ destTable' = seq.before.dest) ]
                     ELSE NoCheck
    /\ seq' = NoSeq
    /\ UNCHANGED << viewFatal, ec, engineDown, maxOpened, ipc, reg, stats, rx, query >>

-----------------------------------------------------------------------------
(* The IPC command loop (voltdbipc.cpp).  Bytes are abstract: a status     *)
(* byte is named by its code, a result byte is "r", an exception byte "x". *)

kErrorCode_None == "None"
kErrorCode_Error == "Error"
kErrorCode_Success == "Success"

\* the capacity of the reused result buffer, scaled down from 10 MB
MAX_MSG_SZ == 8
MaxFrags == 2

\* the command codes of execute's switch, and one code it does not know
SimpleCodes == {0, 2, 3, 4, 13, 16, 17, 19}
FallibleCodes == {0, 2, 17, 19}
CatalogCodes == {2, 19}
UndoCodes == {10, 11}
ExecCodes == {6, 7, 12}
UnknownCode == 1
FragKinds == {"select", "insert", "fail"}

\* write(fd, buf, n): the return value and the bytes that reached the host.
\* outcome "full", "short" (fewer bytes than asked) or "fail" (-1)
WriteCall(bytes, outcome) ==
    CASE outcome = "full" -> [ ret |-> Len(bytes), sent |-> bytes ]
      [] outcome = "short" ->
           IF Len(bytes) > 1 THEN [ ret |-> 1, sent |-> SubSeq(bytes, 1, 1) ]
           ELSE [ ret |-> 0, sent |-> <<>> ]
      [] OTHER -> [ ret |-> -1, sent |-> <<>> ]

\* the outcome of the k-th write of a command: net names the write that
\* misbehaves (0: none) and how
NetOutcome(net, k) == IF net.bad = k THEN net.how ELSE "full"
NetChoices == { [ bad |-> 0, how |-> "full" ] } \cup
              { [ bad |-> k, how |-> o ] : k \in 1..2, o \in {"short", "fail"} }

(* FallbackSerializeOutput over the reused result buffer: out.bytes is the *)
(* content of the active buffer, out.fixed the content of the reused       *)
(* buffer, which is no longer written once the fallback buffer is active.  *)
resetReusedResultOutputBuffer(startingPosition) ==
    [ bytes |-> [ i \in 1..startingPosition |-> "stale" ],
      fixed |-> [ i \in 1..MAX_MSG_SZ |-> "stale" ],
      fallback |-> FALSE ]

WriteResult(out, data) ==
    LET newBytes == out.bytes \o data
        overflow == out.fallback \/ Len(newBytes) > MAX_MSG_SZ
    IN  [ bytes |-> newBytes,
          fixed |-> IF overflow THEN out.fixed
                    ELSE [ i \in 1..MAX_MSG_SZ |->
                             IF i <= Len(newBytes) THEN newBytes[i] ELSE out.fixed[i] ],
          fallback |-> overflow ]

getResultsSize(out) == Len(out.bytes)
getResultsBuffer(out) == out.bytes
getReusedResultBuffer(out) == out.fixed

\* the size bytes write() takes from the reused buffer: a read past its
\* capacity is undefined; it faults or yields unrelated memory (overread)
ReadReusedBuffer(buffer, size, overread) ==
    IF size <= MAX_MSG_SZ THEN [ fault |-> FALSE, bytes |-> SubSeq(buffer, 1, size) ]
    ELSE IF overread = "fault" THEN [ fault |-> TRUE, bytes |-> <<>> ]
    ELSE [ fault |-> FALSE,
           bytes |-> buffer \o [ i \in 1..(size - MAX_MSG_SZ) |-> "junk" ] ]


\* the write calls of one command in order.  Each names its bytes and the
\* check the code makes on write's return value: "size" (exit unless all
\* bytes went out), "assert" (an assert only), "int8" (exit unless the
\* return value is sizeof(int8_t)) and "retry" (exit on -1, else write the
\* rest again until all went out); fault: taking the bytes faulted; efault:
\* write found its buffer outside the address space and returned -1
RECURSIVE DoWrites(_, _, _, _, _)
DoWrites(writes, k, net, assertsOn, wire) ==
    IF k > Len(writes) THEN [ wire |-> wire, stop |-> "none" ]
    ELSE IF writes[k].fault THEN [ wire |-> wire, stop |-> "fault" ]
    ELSE LET w == IF writes[k].efault THEN [ ret |-> -1, sent |-> <<>> ]
                  ELSE WriteCall(writes[k].bytes, NetOutcome(net, k))
             sent == wire \o w.sent
             full == w.ret = writes[k].asked
         IN  CASE writes[k].check = "size" /\ ~full ->
                    [ wire |-> sent, stop |-> "write" ]
               [] writes[k].check = "assert" /\ ~full /\ assertsOn ->
                    [ wire |-> sent, stop |-> "write" ]
               [] writes[k].check = "int8" /\ w.ret # 1 ->
                    [ wire |-> sent, stop |-> IF full THEN "replycheck" ELSE "write" ]
               [] writes[k].check = "retry" /\ w.ret = -1 ->
                    [ wire |-> sent, stop |-> "write" ]
               [] writes[k].check = "retry" ->
                    DoWrites(writes, k + 1, net, assertsOn, wire \o writes[k].bytes)
               [] OTHER -> DoWrites(writes, k + 1, net, assertsOn, sent)

\* asked: the count handed to write; bytes: what it could take from memory
WriteOf(bytes, check) ==
    [ bytes |-> bytes, asked |-> Len(bytes), check |-> check, fault |-> FALSE,
      efault |-> FALSE ]

\* history of a reply: the bytes its writes asked to send, from write k on,
\* and whether the write that net makes short was reached and made
RECURSIVE AskedBytes(_, _)
AskedBytes(writes, k) ==
    IF k > Len(writes) THEN <<>> ELSE writes[k].bytes \o AskedBytes(writes, k + 1)

ShortWriteHappened(writes, net, assertsOn) ==
    /\ net.how = "short"
    /\ net.bad \in 1..Len(writes)
    /\ ~writes[net.bad].fault
    /\ ~writes[net.bad].efault
    /\ DoWrites(SubSeq(writes, 1, net.bad - 1), 1, net, assertsOn, <<>>).stop = "none"

\* execute, lines 246-262: the reply of a simple command
SimpleReply(result) ==
    IF result = kErrorCode_None THEN <<>>
    ELSE IF result = kErrorCode_Error
    THEN << WriteOf(<< kErrorCode_Error, "00", "00" >>, "int8") >>
    ELSE << WriteOf(<< result >>, "int8") >>

\* the exception the engine serialized: a 16-bit length in network order,
\* then that many bytes of body.  length: the value stored, 0..65535
ExceptionLengths == { 0, 1, 32768, 65533, 65534, 65535 }
ExceptionLengthBytes(length) == << length \div 256, length % 256 >>
ntohs(b) == b[1] * 256 + b[2]

\* static_cast<int16_t> of a 16-bit value
Int16(u) == IF u >= 32768 THEN u - 65536 ELSE u

\* exceptionLength + sizeof(int16_t) as std::size_t.  A negative sum n wraps
\* to 2^64 + n; such a value is written n here, as is the ssize_t -1 of a
\* failed write that the code compares with it
expectedSize(exceptionLength) == exceptionLength + 2

\* the first n bytes of the exception buffer
ExceptionBytes(n) == [ i \in 1..n |-> IF i <= 2 THEN "len" ELSE "x" ]

\* sendException, lines 523-547.  A count past the end of the exception
\* buffer reads what lies behind it: write returns -1 at once (overread
\* "fault"), or takes what memory it can and returns less than it was asked
sendException(errorCode, length, overread) ==
    LET exceptionLength == Int16(ntohs(ExceptionLengthBytes(length)))
        size == expectedSize(exceptionLength)
    IN  << WriteOf(<< errorCode >>, "size"),
           IF size < 0
           THEN [ bytes |-> ExceptionBytes(MAX_MSG_SZ) \o << "junk" >>, asked |-> size,
                  check |-> "size", fault |-> FALSE, efault |-> overread = "fault" ]
           ELSE WriteOf(ExceptionBytes(size), "size") >>

\* the reply of commands 6 and 7: the status byte goes into byte 0 of the
\* reused buffer, and getResultsSize bytes of that buffer are written
ReusedBufferReply(out, overread) ==
    LET resultBuffer == [ getReusedResultBuffer(out) EXCEPT ![1] = kErrorCode_Success ]
        r == ReadReusedBuffer(resultBuffer, getResultsSize(out), overread)
    IN  << [ bytes |-> r.bytes, asked |-> getResultsSize(out), check |-> "size",
             fault |-> r.fault, efault |-> FALSE ] >>

\* the reply of commands 5 and 12: the status byte in a write of its own
StatusThenBufferReply(out, overread) ==
    LET r == ReadReusedBuffer(getReusedResultBuffer(out), getResultsSize(out), overread)
    IN  << WriteOf(<< kErrorCode_Success >>, "assert"),
           [ bytes |-> r.bytes, asked |-> getResultsSize(out), check |-> "assert",
             fault |-> r.fault, efault |-> FALSE ] >>

\* the result bytes one fragment of each kind serializes
ResultBytes(kind) ==
    CASE kind = "select" -> [ i \in 1..4 |-> "r" ]
      [] kind = "insert" -> << "r" >>
      [] OTHER -> <<>>

\* executeQuery on one fragment: st carries the engine's tables, undo log,
\* result output, and what the command has run so far.  A fragment of kind
\* "fail" raises; an insert without an open quantum cannot register its
\* inverse action and raises too.  Returns with errors raised by one.
executeQuery(kind, st) ==
    IF kind = "fail" \/ (kind = "insert" /\ st.current = NoQuantum)
    THEN [ st EXCEPT !.errors = @ + 1, !.executed = Append(@, FALSE) ]
    ELSE IF kind = "insert"
    THEN LET r == CHOOSE x \in UndoRows : TRUE
             t == InsertInto(st.source, st.dest, r)
         IN  [ st EXCEPT !.source = t.source, !.dest = t.dest,
                         !.log = registerUndoActions(st.log,
                                     UndoActionsFor(r, -1, st.dest, t)),
                         !.out = WriteResult(st.out, ResultBytes(kind)),
                         !.payload = @ \o ResultBytes(kind),
                         !.executed = Append(@, TRUE) ]
    ELSE [ st EXCEPT !.out = WriteResult(st.out, ResultBytes(kind)),
                     !.payload = @ \o ResultBytes(kind),
                     !.executed = Append(@, TRUE) ]

\* the fragment loop of executeQueryPlanFragmentsAndGetResults, lines 434-448
RECURSIVE RunFragments(_, _, _)
RunFragments(frags, i, st) ==
    IF i > Len(frags) THEN st
    ELSE RunFragments(frags, i + 1, executeQuery(frags[i], st))

\* the engine state a command starts from, after resetReusedResultOutputBuffer
\* and setUndoToken (u: what setUndoToken returned)
StartState(u, startingPosition) ==
    [ source |-> sourceTable, dest |-> destTable, log |-> u.log, current |-> u.current,
      out |-> resetReusedResultOutputBuffer(startingPosition),
      payload |-> <<>>, errors |-> 0, executed |-> <<>> ]

Inserts(frags) == Cardinality({ i \in DOMAIN frags : frags[i] = "insert" })
Batches == UNION { [ 1..n -> FragKinds ] : n \in 0..MaxFrags }

NoCommand == -1
NoLength == -1

(* retrieveDependency, lines 634-708: the engine asks the host for a       *)
(* dependency in the middle of a fragment.  dep.pc is the call's position, *)
(* dep.trace the writes and reads it made so far, in order.                *)
MaxDepId == 3
MaxDepLen == 4
kErrorCode_RetrieveDependency == "RetrieveDependency"
kErrorCode_DependencyFound == "DependencyFound"
kErrorCode_DependencyNotFound == "DependencyNotFound"
ResponseCodes == { kErrorCode_DependencyFound, kErrorCode_DependencyNotFound,
                   kErrorCode_Success, kErrorCode_Error }

\* the four bytes of a 32-bit value in network order, and the int32_t the
\* bytes stand for
htonl(n) == << (n \div 16777216) % 256, (n \div 65536) % 256, (n \div 256) % 256, n % 256 >>
ntohl(b) ==
    (IF b[1] >= 128 THEN b[1] - 256 ELSE b[1]) * 16777216 + b[2] * 65536 + b[3] * 256 + b[4]

\* the length prefixes the host sends: 0..MaxDepLen, and -1
DepLengthBytes == { htonl(n) : n \in 0..MaxDepLen } \cup { << 255, 255, 255, 255 >> }

DepInit ==
    [ pc |-> "idle", trace |-> <<>>, message |-> <<>>, responseCode |-> "none",
      dependencyLength |-> 0, bytes |-> 0, result |-> "none",
      dependencyData |-> <<>> ]

\* the p-th byte of the dependency the host sends, and what new char[]
\* holds before it is written
DepByte(p) == p
Uninitialized == -1

\* lines 663-671: what the response code leads to
responseCodeOutcome_OtherReturnsNull(responseCode) ==
    IF responseCode = kErrorCode_DependencyFound THEN "readLength" ELSE "returned"
responseCodeOutcome(responseCode) ==
    IF kErrorCode_DependencyNotFound = responseCode THEN "returned"
    ELSE IF kErrorCode_DependencyFound # responseCode THEN "exited"
    ELSE "readLength"

\* lines 639-649: the request; written: what write returned
retrieveDependency_write(dependencyId, written) ==
    LET message == << kErrorCode_RetrieveDependency >> \o htonl(dependencyId)
    IN  [ DepInit EXCEPT !.pc = IF written # 5 THEN "exited" ELSE "readStatus",
                         !.trace = << "write" >>,
                         !.message = IF written <= 0 THEN <<>>
                                     ELSE SubSeq(message, 1, written),
                         !.result = IF written # 5 THEN "exit" ELSE "none" ]

\* lines 651-671: the response code; read: what read returned
retrieveDependency_status(d, responseCode, read) ==
    LET to == IF read # 1 THEN "exited" ELSE responseCodeOutcome(responseCode)
    IN  [ d EXCEPT !.pc = to,
                   !.trace = Append(@, "readStatus"),
                   !.responseCode = IF read = 1 THEN responseCode ELSE "none",
                   !.result = CASE to = "exited" -> "exit"
                                [] to = "returned" -> "null"
                                [] OTHER -> "none" ]

\* lines 673-687: the length prefix, then new char[dependencyLength], which
\* raises for a negative length; a length of 0 returns without a read
retrieveDependency_length(d, lengthBytes, read) ==
    LET dependencyLength == ntohl(lengthBytes)
        to == IF read # 4 THEN "exited"
              ELSE IF dependencyLength < 0 THEN "raised"
              ELSE IF dependencyLength = 0 THEN "returned"
              ELSE "readData"
    IN  [ d EXCEPT !.pc = to,
                   !.trace = Append(@, "readLength"),
                   !.dependencyLength = IF read = 4 THEN dependencyLength ELSE 0,
                   !.dependencyData = IF to = "readData"
                                      THEN [ i \in 1..dependencyLength |-> Uninitialized ]
                                      ELSE <<>>,
                   !.result = CASE to = "exited" -> "exit"
                                [] to = "raised" -> "raise"
                                [] to = "returned" -> "data"
                                [] OTHER -> "none" ]

\* mutant of retrieveDependency_data: a read of 0 or -1 leaves the loop
\* and the buffer is returned as it is
retrieveDependency_data_NoFinalCheck(d, read) ==
    LET bytes == IF read > 0 THEN d.bytes + read ELSE d.bytes
        to == IF read <= 0 THEN "returned"
              ELSE IF bytes # d.dependencyLength THEN "readData"
              ELSE "returned"
    IN  [ d EXCEPT !.pc = to,
                   !.trace = Append(@, "readData"),
                   !.bytes = bytes,
                   !.dependencyData =
                       [ i \in 1..Len(@) |->
                           IF i > d.bytes /\ i <= bytes THEN DepByte(i) ELSE @[i] ],
                   !.result = "data" ]

\* lines 688-707: one turn of the read loop; read: what read returned
\* (0 and -1 leave the loop early, and the call exits).  The bytes read,
\* the next of the host's, are stored at dependencyData + bytes
retrieveDependency_data(d, read) ==
    LET bytes == IF read > 0 THEN d.bytes + read ELSE d.bytes
        to == IF read <= 0 THEN "exited"
              ELSE IF bytes # d.dependencyLength THEN "readData"
              ELSE "returned"
    IN  [ d EXCEPT !.pc = to,
                   !.trace = Append(@, "readData"),
                   !.bytes = bytes,
                   !.dependencyData =
                       [ i \in 1..Len(@) |->
                           IF i > d.bytes /\ i <= bytes
                           THEN DepByte(d.bytes + (i - d.bytes)) ELSE @[i] ],
                   !.result = CASE to = "exited" -> "exit"
                                [] to = "returned" -> "data"
                                [] OTHER -> "none" ]

\* the catalog of the engine: a set of items.  A catalog payload names the
\* items it carries (add) and, as a diff, the items it removes (del)
Items == { "a", "b" }
CatalogPayloads == [ add : SUBSET Items, del : SUBSET Items ]
EmptyPayload == [ add |-> {}, del |-> {} ]

\* VoltDBEngine::loadCatalog replaces the catalog wholesale
engine_loadCatalog(catalog, payload) == payload.add

\* VoltDBEngine::updateCatalog applies the additions, then the deletions
engine_updateCatalog(catalog, payload) == (catalog \cup payload.add) \ payload.del

\* VoltDBIPC::loadCatalog and VoltDBIPC::updateCatalog: the engine call and
\* the status made of its return value (ok)
loadCatalog(catalog, payload, ok) ==
    [ op |-> "loadCatalog",
      result |-> IF ok THEN kErrorCode_Success ELSE kErrorCode_Error,
      catalog |-> IF ok THEN engine_loadCatalog(catalog, payload) ELSE catalog ]
updateCatalog(catalog, payload, ok) ==
    [ op |-> "updateCatalog",
      result |-> IF ok THEN kErrorCode_Success ELSE kErrorCode_Error,
      catalog |-> IF ok THEN engine_updateCatalog(catalog, payload) ELSE catalog ]

\* the switch of execute for the simple commands, lines 184-241
execute(code, catalog, payload, ok) ==
    CASE code = 2 -> loadCatalog(catalog, payload, ok)
      [] code = 19 -> loadCatalog(catalog, payload, ok)
      [] OTHER -> [ op |-> "other",
                    result |-> IF ok THEN kErrorCode_Success ELSE kErrorCode_Error,
                    catalog |-> catalog ]
IpcInit ==
    [ pc |-> "reading", stop |-> "none", engine |-> FALSE, terminate |-> FALSE,
      cmd |-> NoCommand, result |-> kErrorCode_None, wire |-> <<>>, netOk |-> TRUE,
      short |-> FALSE, asked |-> <<>>,
      executed |-> <<>>, payload |-> <<>>, restored |-> TRUE,
      excLength |-> NoLength, fallback |-> FALSE, readSize |-> 0,
      catalog |-> {}, engineOp |-> "none", catalogBefore |-> {},
      catalogPayload |-> EmptyPayload, dep |-> DepInit ]

\* the end of execute and of the loop's iteration: the writes of the reply,
\* then m_terminate decides whether the loop goes on.  info: what the
\* command ran (executed, payload, restored)
AfterCommand(code, result, writes, net, assertsOn, term, info) ==
    LET w == DoWrites(writes, 1, net, assertsOn, <<>>)
        terminate == ipc.terminate \/ term
    IN  [ ipc EXCEPT
            !.pc = IF w.stop # "none" \/ terminate THEN "stopped" ELSE "reading",
            !.stop = IF w.stop # "none" THEN w.stop
                     ELSE IF terminate THEN "terminate" ELSE "none",
            !.terminate = terminate,
            !.cmd = code, !.result = result, !.wire = w.wire,
            !.netOk = net.bad = 0 \/ net.bad > Len(writes),
            !.short = ShortWriteHappened(writes, net, assertsOn),
            !.asked = AskedBytes(writes, 1),
            !.executed = info.executed, !.payload = info.payload,
            !.restored = info.restored, !.excLength = info.excLength,
            !.fallback = info.fallback, !.readSize = info.readSize,
            !.engineOp = info.engineOp, !.catalogBefore = info.catalogBefore,
            !.catalogPayload = info.catalogPayload ]

\* fallback: the result output ended on its heap buffer; readSize: the
\* count of bytes the reply took from the reused result buffer; engineOp:
\* the engine call a catalog command reached, on catalogBefore with
\* catalogPayload
NoInfo == [ executed |-> <<>>, payload |-> <<>>, restored |-> TRUE,
            excLength |-> NoLength, fallback |-> FALSE, readSize |-> 0,
            engineOp |-> "none", catalogBefore |-> {},
            catalogPayload |-> EmptyPayload ]

\* the vassert of setUndoToken stopped the process: no reply is written
Aborted(code) ==
    [ ipc EXCEPT !.pc = "stopped", !.stop = "assert", !.cmd = code,
                 !.result = kErrorCode_None, !.wire = <<>>, !.netOk = TRUE,
                 !.short = FALSE, !.asked = <<>>,
                 !.executed = <<>>, !.payload = <<>>, !.restored = TRUE,
                 !.excLength = NoLength, !.fallback = FALSE, !.readSize = 0,
                 !.engineOp = "none", !.catalogBefore = {},
                 !.catalogPayload = EmptyPayload ]

IpcReady == ipc.pc = "reading" /\ ~engineDown /\ ~viewFatal

\* read returned 0 in the command loop
HostEof ==
    /\ IpcReady
    /\ ipc' = [ ipc EXCEPT !.pc = "stopped", !.stop = "eof" ]
    /\ UNCHANGED << viewVars, undoVars, histVars, reg, stats, rx, query >>

\* read returned -1 in the command loop
HostReadError ==
    /\ IpcReady
    /\ ipc' = [ ipc EXCEPT !.pc = "stopped", !.stop = "readerror" ]
    /\ UNCHANGED << viewVars, undoVars, histVars, reg, stats, rx, query >>

\* commands 0, 2, 3, 4, 13, 16, 17, 19: the engine call succeeds (ok) or not;
\* the host initializes first and once
SimpleCommand(code, ok, net, term, payload) ==
    /\ IpcReady
    /\ (code = 0) <=> ~ipc.engine
    /\ ok \/ code \in FallibleCodes
    /\ payload = EmptyPayload \/ code \in CatalogCodes
    /\ LET e == execute(code, ipc.catalog, payload, ok)
           info == IF code \in CatalogCodes
                   THEN [ NoInfo EXCEPT !.engineOp = e.op,
                                        !.catalogBefore = ipc.catalog,
                                        !.catalogPayload = payload ]
                   ELSE NoInfo
       IN  ipc' = [ AfterCommand(code, e.result, SimpleReply(e.result), net, FALSE, term, info)
                      EXCEPT !.engine = TRUE, !.catalog = e.catalog ]
    /\ UNCHANGED << viewVars, undoVars, histVars, reg, stats, rx, query >>

\* a command code outside the switch: stub
StubCommand(net) ==
    /\ IpcReady
    /\ ipc' = AfterCommand(UnknownCode, kErrorCode_Error, SimpleReply(kErrorCode_Error),
                           net, FALSE, FALSE, NoInfo)
    /\ UNCHANGED << viewVars, undoVars, histVars, reg, stats, rx, query >>

\* command 9: setUndoToken, then the engine loads the (empty) table
LoadTable(token, ok, net, assertsOn) ==
    /\ IpcReady /\ ipc.engine
    /\ LET u == setUndoToken(undoLog, currentQuantum, token, assertsOn)
           result == IF ok THEN kErrorCode_Success ELSE kErrorCode_Error
       IN  /\ Len(u.log) <= MaxQuanta
           /\ undoLog' = u.log
           /\ currentQuantum' = u.current
           /\ engineDown' = u.down
           /\ ipc' = IF u.down THEN Aborted(9)
                     ELSE AfterCommand(9, result, SimpleReply(result), net, FALSE, FALSE, NoInfo)
    /\ UNCHANGED << viewVars, histVars, reg, stats, rx, query >>

\* commands 10 and 11: releaseUndoToken and undoUndoToken
UndoCommand(code, token, net) ==
    /\ IpcReady /\ ipc.engine
    /\ LET r == IF code = 10
                THEN [ log |-> releaseUndoToken(undoLog, currentQuantum, token).log,
                       current |-> releaseUndoToken(undoLog, currentQuantum, token).current,
                       tables |-> Tables ]
                ELSE undoUndoToken(undoLog, currentQuantum, token, Tables)
       IN  /\ undoLog' = r.log
           /\ currentQuantum' = r.current
           /\ sourceTable' = r.tables.source
           /\ destTable' = r.tables.dest
    /\ ipc' = AfterCommand(code, kErrorCode_Success, SimpleReply(kErrorCode_Success),
                           net, FALSE, FALSE, NoInfo)
    /\ UNCHANGED << viewFatal, lastOp, ec, engineDown, histVars, reg, stats, rx, query >>

\* the build's answers to what the code leaves undefined or to asserts, and
\* the host's: a misbehaving write, a terminate() call during the command
OverreadChoices(out) ==
    IF getResultsSize(out) > MAX_MSG_SZ THEN {"fault", "junk"} ELSE {"junk"}
ExceptionOverreadChoices(length) ==
    IF expectedSize(Int16(length)) < 0 THEN {"fault", "junk"} ELSE {"junk"}
\* the length the engine stored with the exception of a failed command
ExceptionChoices(failed, lengths) == IF failed THEN lengths ELSE { NoLength }
ReplyOverreadChoices(st, length) ==
    IF st.errors # 0 THEN ExceptionOverreadChoices(length) ELSE OverreadChoices(st.out)
NetChoicesFor(writes) == { net \in NetChoices : net.bad <= Len(writes) }

\* commands 6, 7 and 12 after setUndoToken: the fragments have run (st),
\* then the results or the exception are written
ReplyOf(code, st, overread, length) ==
    IF st.errors # 0 THEN sendException(kErrorCode_Error, length, overread)
    ELSE IF code = 12 THEN StatusThenBufferReply(st.out, overread)
    ELSE ReusedBufferReply(st.out, overread)

RunAndReply(code, st, assertsOn, lengths) ==
    /\ sourceTable' = st.source
    /\ destTable' = st.dest
    /\ undoLog' = st.log
    /\ currentQuantum' = st.current
    /\ engineDown' = FALSE
    /\ \E length \in ExceptionChoices(st.errors # 0, lengths), term \in BOOLEAN :
         \E overread \in ReplyOverreadChoices(st, length) :
            \E net \in NetChoicesFor(ReplyOf(code, st, overread, length)) :
               ipc' = AfterCommand(code,
                                   IF st.errors = 0 THEN kErrorCode_Success
                                   ELSE kErrorCode_Error,
                                   ReplyOf(code, st, overread, length), net, assertsOn, term,
                                   [ executed |-> st.executed, payload |-> st.payload,
                                     restored |-> (st.source = sourceTable
                                                   /\ st.dest = destTable),
                                     excLength |-> length,
                                     fallback |-> st.out.fallback,
                                     readSize |-> IF st.errors = 0
                                                  THEN getResultsSize(st.out) ELSE 0,
                                     engineOp |-> "none", catalogBefore |-> {},
                                     catalogPayload |-> EmptyPayload ])

ExecuteCommand(code, frags, token, assertsOn, lengths) ==
    /\ IpcReady /\ ipc.engine
    /\ BagSize(sourceTable) + Inserts(frags) <= MaxRows
    /\ LoggedActions(undoLog) + 3 * Inserts(frags) <= 3 * MaxLogged
    /\ \E u \in { setUndoToken(undoLog, currentQuantum, token, assertsOn) } :
         /\ Len(u.log) <= MaxQuanta
         /\ IF u.down
            THEN /\ ipc' = Aborted(code)
                 /\ engineDown' = TRUE
                 /\ UNCHANGED << sourceTable, destTable, undoLog, currentQuantum >>
            ELSE \E st \in { RunFragments(frags, 1,
                                StartState(u, IF code = 12 THEN 0 ELSE 1)) } :
                    RunAndReply(code, st, assertsOn, lengths)
    /\ UNCHANGED << viewFatal, lastOp, ec, histVars, reg, stats, rx, query >>

\* command 6: executeQueryPlanFragmentsAndGetResults
ExecuteBatch(frags, token, assertsOn, lengths) ==
    ExecuteCommand(6, frags, token, assertsOn, lengths)

\* command 7: executePlanFragmentAndGetResults
ExecuteFragment(kind, token, assertsOn, lengths) ==
    ExecuteCommand(7, << kind >>, token, assertsOn, lengths)

\* command 12: executeCustomPlanFragmentAndGetResults
ExecuteCustom(kind, token, assertsOn, lengths) ==
    ExecuteCommand(12, << kind >>, token, assertsOn, lengths)

\* command 5: getStats; the engine serializes a stats table or raises
GetStats(ok, net, assertsOn, lengths) ==
    /\ IpcReady /\ ipc.engine
    /\ \E length \in ExceptionChoices(~ok, lengths) :
         \E overread \in ExceptionOverreadChoices(length) :
            LET out == IF ok THEN WriteResult(resetReusedResultOutputBuffer(0),
                                              ResultBytes("select"))
                       ELSE resetReusedResultOutputBuffer(0)
                writes == IF ok THEN StatusThenBufferReply(out, "junk")
                          ELSE sendException(kErrorCode_Error, length, overread)
            IN  ipc' = AfterCommand(5, IF ok THEN kErrorCode_Success ELSE kErrorCode_Error,
                                    writes, net, assertsOn, FALSE,
                                    [ NoInfo EXCEPT !.excLength = length ])
    /\ UNCHANGED << viewVars, undoVars, histVars, reg, stats, rx, query >>

\* the executor calls retrieveDependency (again, once a call has returned)
DepRequest(dependencyId, written) ==
    /\ ipc.pc = "reading" /\ ipc.dep.pc \in {"idle", "returned"}
    /\ ipc' = [ ipc EXCEPT !.dep = retrieveDependency_write(dependencyId, written) ]
    /\ UNCHANGED << viewVars, undoVars, histVars, reg, stats, rx, query >>

DepStatus(responseCode, read) ==
    /\ ipc.dep.pc = "readStatus"
    /\ ipc' = [ ipc EXCEPT !.dep = retrieveDependency_status(ipc.dep, responseCode, read) ]
    /\ UNCHANGED << viewVars, undoVars, histVars, reg, stats, rx, query >>

DepLength(lengthBytes, read) ==
    /\ ipc.dep.pc = "readLength"
    /\ ipc' = [ ipc EXCEPT !.dep = retrieveDependency_length(ipc.dep, lengthBytes, read) ]
    /\ UNCHANGED << viewVars, undoVars, histVars, reg, stats, rx, query >>

DepData(read) ==
    /\ ipc.dep.pc = "readData"
    /\ read <= ipc.dep.dependencyLength - ipc.dep.bytes
    /\ ipc' = [ ipc EXCEPT !.dep = retrieveDependency_data(ipc.dep, read) ]
    /\ UNCHANGED << viewVars, undoVars, histVars, reg, stats, rx, query >>

CowBufferLengths == { MAX_MSG_SZ - 6, MAX_MSG_SZ - 5 }

\* command 18: cowSerializeMore; serialized is what the engine returned
\* (-1: the table has no more tuples)
cowSerializeMore(bufferLength, serialized, net, assertsOn) ==
    LET tooLong == bufferLength >= MAX_MSG_SZ - 5
        errorReply == IF tooLong
                      THEN << WriteOf(<< kErrorCode_Error, "00", "00" >>, "int8") >>
                      ELSE <<>>
        toWrite == (IF serialized = -1 THEN 0 ELSE serialized) + 5
        reply == [ i \in 1..toWrite |->
                     IF i = 1 THEN kErrorCode_Success ELSE IF i <= 5 THEN "n" ELSE "c" ]
    IN  IF tooLong /\ assertsOn
        THEN Aborted(18)
        ELSE AfterCommand(18, kErrorCode_Success,
                          errorReply \o << WriteOf(reply, "retry") >>,
                          net, assertsOn, FALSE, NoInfo)

\* history: the last command was a CowSerializeMore whose buffer size
\* was not below MAX_MSG_SZ - 5 (it was aborted, or was to get the Error frame)
CowRequestTooLong ==
    \/ ipc.stop = "assert"
    \/ ipc.asked # <<>> /\ ipc.asked[1] = kErrorCode_Error

CowSerializeMore(bufferLength, serialized, net, assertsOn) ==
    /\ IpcReady /\ ipc.engine
    /\ serialized <= bufferLength
    /\ ipc' = cowSerializeMore(bufferLength, serialized, net, assertsOn)
    /\ UNCHANGED << viewVars, undoVars, histVars, reg, stats, rx, query >>

-----------------------------------------------------------------------------
(* Installation of view handlers.  The aggregate types of the destination  *)
(* columns come from the catalog; AGG_AVG stands for every aggregate type  *)
(* outside the five the handler maintains.                                 *)
AGG_AVG == "AVG"
LegalAggTypes == {AGG_SUM, AGG_COUNT, AGG_COUNT_STAR, AGG_MIN, AGG_MAX}
AggTypes == LegalAggTypes \cup {AGG_AVG}
MaxAggColumns == 2
AggTypeLists == UNION { [1..n -> AggTypes] : n \in 1..MaxAggColumns }
GroupByCounts == {0, 1}

\* the catalogs of the handler-list model: a view with COUNT(*) and SUM, and
\* one with an aggregate the handler rejects
InstallAggTypeLists == { << AGG_COUNT_STAR, AGG_SUM >>, << AGG_COUNT_STAR, AGG_AVG >> }

\* m_countStarColumnIndex is set by no constructor initializer: where no
\* column is COUNT(*) it keeps whatever the memory held
GarbageIndexes == -1..MaxAggColumns

\* mutant of setUpAggregateInfo: the switch has no default branch
setUpAggregateInfo_NoDefault(gbc, aggTypes, garbage) ==
    [ ok |-> TRUE, m_aggColumnCount |-> Len(aggTypes), m_aggTypes |-> aggTypes,
      m_countStarColumnIndex |->
          IF \E i \in 1..Len(aggTypes) : aggTypes[i] = AGG_COUNT_STAR
          THEN countStarColumnIndexOf(gbc, aggTypes) ELSE garbage ]

\* setUpAggregateInfo: throws at a column of another aggregate type
setUpAggregateInfo(gbc, aggTypes, garbage) ==
    IF \E i \in 1..Len(aggTypes) : aggTypes[i] \notin LegalAggTypes
    THEN [ ok |-> FALSE, m_aggColumnCount |-> Len(aggTypes), m_aggTypes |-> <<>>,
           m_countStarColumnIndex |-> garbage ]
    ELSE [ ok |-> TRUE, m_aggColumnCount |-> Len(aggTypes), m_aggTypes |-> aggTypes,
           m_countStarColumnIndex |->
               IF \E i \in 1..Len(aggTypes) : aggTypes[i] = AGG_COUNT_STAR
               THEN countStarColumnIndexOf(gbc, aggTypes) ELSE garbage ]

-----------------------------------------------------------------------------
(* The handlers and the handler lists of the source tables.  TP and VP are *)
(* partitioned tables, TR and VR replicated ones; a handler is partitioned *)
(* when its destination table is.  A replicated view over a partitioned    *)
(* source is excluded by the assert of addSourceTable.                     *)
MaxHandlers == 3
Handlers == 1..MaxHandlers
NoHandler == 0
SourceTables == {"TP", "TR"}
DestTables == {"VP", "VR"}
isCatalogTableReplicated(table) == table \in {"TR", "VR"}
SourcesFor(dest) ==
    IF isCatalogTableReplicated(dest) THEN { {"TR"} } ELSE (SUBSET SourceTables) \ { {} }

\* an entry of a source table's handler list: the handler or its wrapper
HandlerEntry(h) == << "handler", h >>
WrapperEntry(h) == << "wrapper", h >>

NoHandlerObject == [ state |-> "none", dest |-> "none", m_sourceTables |-> {},
                     m_replicatedWrapper |-> FALSE ]
NoInstall == [ h |-> NoHandler, ok |-> FALSE, gbc |-> 0, aggTypes |-> <<>>,
               m_aggTypes |-> <<>>, m_countStarColumnIndex |-> -1 ]
\* the engines of the process, one thread each; engine e owns partition e and
\* the partitioned handler e over the replicated table TR
MaxEngines == 3
Engines == 1..MaxEngines
NoEngine == 0

\* assumeLowestSiteContext: the engine context of the lowest site, which is
\* the context of the thread that changes a replicated table
LowestSite == 1
\* history of the last notification of the wrappers of TR: the thread's
\* context before and after, and for each wrapper run its partition and the
\* context its handler ran in
NoNotification == [ kind |-> "none", before |-> NoEngine, after |-> NoEngine,
                    ran |-> <<>>, raised |-> FALSE ]

RegInit == [ handlers |-> [ h \in Handlers |-> NoHandlerObject ],
             viewHandlers |-> [ t \in SourceTables |-> {} ],
             m_mvHandler |-> [ d \in DestTables |-> NoHandler ],
             last |-> NoInstall,
             crashed |-> FALSE,
             lock |-> NoEngine,
             todo |-> [ e \in Engines |-> <<>> ],
             mutating |-> {},
             context |-> LowestSite,
             shim |-> NoNotification ]

\* the entry addSourceTable and dropSourceTable use for handler h on table
EntryOf(r, h, table) ==
    LET viewHandlerPartitioned == ~isCatalogTableReplicated(r.handlers[h].dest)
    IN  IF viewHandlerPartitioned = isCatalogTableReplicated(table)
        THEN WrapperEntry(h) ELSE HandlerEntry(h)

addSourceTable(r, h, table) ==
    [ r EXCEPT !.handlers[h].m_replicatedWrapper =
                    @ \/ EntryOf(r, h, table) = WrapperEntry(h),
               !.viewHandlers[table] = @ \cup { EntryOf(r, h, table) },
               !.handlers[h].m_sourceTables = @ \cup { table } ]

dropSourceTable(r, h, table) ==
    [ r EXCEPT !.viewHandlers[table] = @ \ { EntryOf(r, h, table) },
               !.handlers[h].m_sourceTables = @ \ { table } ]

\* the loop of install over mvHandlerInfo->sourceTables()
RECURSIVE addSourceTables(_, _, _)
addSourceTables(r, h, tables) ==
    IF tables = {} THEN r
    ELSE LET table == CHOOSE t \in tables : TRUE
         IN  addSourceTables(addSourceTable(r, h, table), h, tables \ { table })

\* the loop of the destructor: dropSourceTable until m_sourceTables is empty
RECURSIVE dropSourceTables(_, _)
dropSourceTables(r, h) ==
    IF r.handlers[h].m_sourceTables = {} THEN r
    ELSE LET table == CHOOSE t \in r.handlers[h].m_sourceTables : TRUE
         IN  dropSourceTables(dropSourceTable(r, h, table), h)

\* ~MaterializedViewHandler: with no source table left it returns at once,
\* and the wrapper is not deleted
destructor(r, h) ==
    IF r.handlers[h].m_sourceTables = {}
    THEN [ r EXCEPT !.handlers[h].state = "destroyed" ]
    ELSE [ dropSourceTables(r, h) EXCEPT !.handlers[h].state = "destroyed",
                                         !.handlers[h].m_replicatedWrapper = FALSE ]

\* `delete p`: nothing for NULL, the destructor for a live handler; for a
\* pointer to a handler whose storage is gone the behaviour is undefined:
\* the destructor runs over the stale object, or the process dies
DanglingOutcomes == {"runs", "dies"}
deleteHandler(r, h, ub) ==
    IF h = NoHandler THEN r
    ELSE IF r.handlers[h].state = "alive" \/ ub = "runs" THEN destructor(r, h)
    ELSE [ r EXCEPT !.crashed = TRUE ]

\* MaterializedViewHandler::MaterializedViewHandler for a new handler h:
\* install, then setUpAggregateInfo.  When that throws, the storage of h is
\* released and ~MaterializedViewHandler does not run
constructor(r, h, dest, gbc, aggTypes, sources, garbage, ub) ==
    LET deleted == deleteHandler(r, r.m_mvHandler[dest], ub)
        created == [ deleted EXCEPT !.handlers[h] =
                        [ NoHandlerObject EXCEPT !.state = "alive", !.dest = dest ],
                                    !.m_mvHandler[dest] = h ]
        installed == addSourceTables(created, h, sources)
        agg == setUpAggregateInfo(gbc, aggTypes, garbage)
    IN  IF deleted.crashed THEN deleted
        ELSE [ installed EXCEPT
                 !.handlers[h].state = IF agg.ok THEN "alive" ELSE "failed",
                 !.last = [ h |-> h, ok |-> agg.ok, gbc |-> gbc, aggTypes |-> aggTypes,
                            m_aggTypes |-> agg.m_aggTypes,
                            m_countStarColumnIndex |-> agg.m_countStarColumnIndex ] ]

\* the inputs that make a difference: the stale value of the count-star
\* index where no column sets it, the outcome of a delete where the pointer
\* dangles
GarbageChoices(aggTypes) ==
    IF \E i \in 1..Len(aggTypes) : aggTypes[i] = AGG_COUNT_STAR
    THEN { -1 } ELSE GarbageIndexes
DanglingChoices(dest) ==
    IF reg.m_mvHandler[dest] # NoHandler /\ reg.handlers[reg.m_mvHandler[dest]].state # "alive"
    THEN DanglingOutcomes ELSE { "runs" }
FreshHandlers == { h \in Handlers : reg.handlers[h].state = "none" }

\* a catalog load builds a handler for the view dest
Construct(dest, gbc, aggTypes, sources, garbage, ub) ==
    /\ ~reg.crashed
    /\ FreshHandlers # {}
    /\ reg' = constructor(reg, SetMin(FreshHandlers), dest, gbc, aggTypes, sources,
                          garbage, ub)
    /\ UNCHANGED << viewVars, undoVars, histVars, ipc, stats, rx, query >>

AddSourceTable(h, table) ==
    /\ ~reg.crashed
    /\ reg.handlers[h].state = "alive"
    /\ table \in UNION SourcesFor(reg.handlers[h].dest)
    /\ table \notin reg.handlers[h].m_sourceTables
    /\ reg' = addSourceTable(reg, h, table)
    /\ UNCHANGED << viewVars, undoVars, histVars, ipc, stats, rx, query >>

DropSourceTable(h, table) ==
    /\ ~reg.crashed
    /\ reg.handlers[h].state = "alive"
    /\ table \in reg.handlers[h].m_sourceTables
    /\ reg' = dropSourceTable(reg, h, table)
    /\ UNCHANGED << viewVars, undoVars, histVars, ipc, stats, rx, query >>

\* the view table dest goes away and deletes its handler
Destroy(dest, ub) ==
    /\ ~reg.crashed
    /\ reg.m_mvHandler[dest] # NoHandler
    /\ reg' = [ deleteHandler(reg, reg.m_mvHandler[dest], ub) EXCEPT
                   !.m_mvHandler[dest] = NoHandler ]
    /\ UNCHANGED << viewVars, undoVars, histVars, ipc, stats, rx, query >>

-----------------------------------------------------------------------------
(* Attach and detach on a replicated source table, thread by thread.  The  *)
(* replicated-resource lock is a process-wide mutex: lockReplicatedResource *)
(* waits until no thread holds it.                                         *)

\* mutant of replicatedAttachSteps: the wrapper is added without the lock
replicatedAttachSteps_NoLock == << "addViewHandler" >>

\* what addSourceTable does with a replicated source table, in program order
replicatedAttachSteps == << "lockReplicatedResource", "addViewHandler",
                           "unlockReplicatedResource" >>

\* what dropSourceTable does with a replicated source table, in program order
replicatedDetachSteps == << "lockReplicatedResource", "dropViewHandler",
                           "unlockReplicatedResource" >>

\* engine e enters addSourceTable for its handler and the table TR
StartAttach(e) ==
    /\ reg.todo[e] = <<>>
    /\ WrapperEntry(e) \notin reg.viewHandlers["TR"]
    /\ reg' = [ reg EXCEPT !.todo[e] = replicatedAttachSteps ]
    /\ UNCHANGED << viewVars, undoVars, histVars, ipc, stats, rx, query >>

\* engine e enters dropSourceTable for its handler and the table TR
StartDetach(e) ==
    /\ reg.todo[e] = <<>>
    /\ WrapperEntry(e) \in reg.viewHandlers["TR"]
    /\ reg' = [ reg EXCEPT !.todo[e] = replicatedDetachSteps ]
    /\ UNCHANGED << viewVars, undoVars, histVars, ipc, stats, rx, query >>

lockReplicatedResource(e) ==
    /\ reg.todo[e] # <<>> /\ Head(reg.todo[e]) = "lockReplicatedResource"
    /\ reg.lock = NoEngine
    /\ reg' = [ reg EXCEPT !.lock = e, !.todo[e] = Tail(@) ]
    /\ UNCHANGED << viewVars, undoVars, histVars, ipc, stats, rx, query >>

\* the call of addViewHandler or dropViewHandler begins: the list of TR is
\* being changed until the call returns
BeginViewHandlerCall(e) ==
    /\ reg.todo[e] # <<>> /\ Head(reg.todo[e]) \in {"addViewHandler", "dropViewHandler"}
    /\ e \notin reg.mutating
    /\ reg' = [ reg EXCEPT !.mutating = @ \cup { e } ]
    /\ UNCHANGED << viewVars, undoVars, histVars, ipc, stats, rx, query >>

EndViewHandlerCall(e) ==
    /\ e \in reg.mutating
    /\ reg' = [ reg EXCEPT !.mutating = @ \ { e },
                           !.viewHandlers["TR"] =
                               IF Head(reg.todo[e]) = "addViewHandler"
                               THEN @ \cup { WrapperEntry(e) }
                               ELSE @ \ { WrapperEntry(e) },
                           !.todo[e] = Tail(@) ]
    /\ UNCHANGED << viewVars, undoVars, histVars, ipc, stats, rx, query >>

unlockReplicatedResource(e) ==
    /\ reg.todo[e] # <<>> /\ Head(reg.todo[e]) = "unlockReplicatedResource"
    /\ reg' = [ reg EXCEPT !.lock = NoEngine, !.todo[e] = Tail(@) ]
    /\ UNCHANGED << viewVars, undoVars, histVars, ipc, stats, rx, query >>

-----------------------------------------------------------------------------
(* Notifications of the wrappers on the replicated table.  The handler     *)
(* behind a wrapper maintains the view of its own partition; here it       *)
(* either returns or raises.                                               *)

\* ReplicatedMaterializedViewHandler::handleTupleInsert / handleTupleDelete
\* of the wrapper of partition m_handlerPartitionId, called with the
\* thread's context being context: the context the partitioned handler runs
\* in, and the thread's context when the call is over
replicatedHandleTuple(context, m_handlerPartitionId, raise) ==
    [ during |-> m_handlerPartitionId,
      after |-> IF raise # "none" THEN m_handlerPartitionId ELSE LowestSite,
      raised |-> raise # "none" ]

\* the source table TR notifies the wrappers on its list, in order, until
\* one raises; raiseAt is the partition whose handler raises, if any
RECURSIVE notifyWrappers(_, _, _, _)
notifyWrappers(partitions, context, raiseAt, ran) ==
    IF partitions = {} THEN [ after |-> context, ran |-> ran, raised |-> FALSE ]
    ELSE LET part == SetMin(partitions)
             res == replicatedHandleTuple(context, part,
                        IF raiseAt = part THEN "createQuery" ELSE "none")
             seen == Append(ran, [ partition |-> part, context |-> res.during ])
         IN  IF res.raised
             THEN [ after |-> res.after, ran |-> seen, raised |-> TRUE ]
             ELSE notifyWrappers(partitions \ { part }, res.after, raiseAt, seen)

\* an insert into, or a delete from, the replicated table TR in
\* single-thread mode
NotifyWrappers(kind, raiseAt) ==
    /\ \A e \in Engines : reg.todo[e] = <<>>
    /\ reg.viewHandlers["TR"] # {}
    /\ raiseAt \in { NoEngine } \cup { e \in Engines : WrapperEntry(e) \in reg.viewHandlers["TR"] }
    /\ \E n \in { notifyWrappers({ e \in Engines : WrapperEntry(e) \in reg.viewHandlers["TR"] },
                                   reg.context, raiseAt, <<>>) } :
          reg' = [ reg EXCEPT !.context = n.after,
                              !.shim = [ kind |-> kind, before |-> reg.context,
                                         after |-> n.after, ran |-> n.ran,
                                         raised |-> n.raised ] ]
    /\ UNCHANGED << viewVars, undoVars, histVars, ipc, stats, rx, query >>

-----------------------------------------------------------------------------
(* The per-fragment stats buffer of a batch: the flag byte, then what the  *)
(* engine has written behind it, { succeededFragmentsCount, times... }.    *)
MaxNanos == 4
ExecutionTimes == 1..MaxNanos
\* the fragments of a batch: whether each would succeed, and its run time
FragmentRuns == UNION { [1..n -> [ ok : BOOLEAN, nanos : ExecutionTimes ]] : n \in 0..MaxFrags }
TimingFlags == { -1, 0, 1 }
NoBatch == [ frags |-> <<>>, status |-> "none" ]
StatsInit == [ perFragmentTimingEnabled |-> 0, written |-> <<>>, batch |-> NoBatch ]

\* resetPerFragmentStatsOutputBuffer: the output restarts behind the flag
\* byte, which is written here unless the host owns it (-1)
resetPerFragmentStatsOutputBuffer(buffer, perFragmentTimingEnabled) ==
    [ buffer EXCEPT !.perFragmentTimingEnabled =
                        IF perFragmentTimingEnabled > -1 THEN perFragmentTimingEnabled ELSE @,
                    !.written = <<>> ]

\* the fragment loop of a batch from fragment i on: times holds the samples
\* recorded so far; a failing fragment's time is recorded and ends the batch
RECURSIVE runFragmentsTimed(_, _, _)

\* mutant of runFragmentsTimed: the failing fragment leaves no time sample
runFragmentsTimed_NoFailingSample(frags, i, times) ==
    IF i > Len(frags) THEN [ succeeded |-> i - 1, times |-> times, failed |-> FALSE ]
    ELSE IF frags[i].ok
         THEN runFragmentsTimed(frags, i + 1, Append(times, frags[i].nanos))
         ELSE [ succeeded |-> i - 1, times |-> times, failed |-> TRUE ]

runFragmentsTimed(frags, i, times) ==
    IF i > Len(frags) THEN [ succeeded |-> i - 1, times |-> times, failed |-> FALSE ]
    ELSE IF frags[i].ok
         THEN runFragmentsTimed(frags, i + 1, Append(times, frags[i].nanos))
         ELSE [ succeeded |-> i - 1, times |-> Append(times, frags[i].nanos),
                failed |-> TRUE ]

\* executePlanFragments: reset, run the fragments, then write the count of
\* succeeded fragments into the header reserved in front of the samples
executePlanFragments(buffer, frags, perFragmentTimingEnabled) ==
    LET reset == resetPerFragmentStatsOutputBuffer(buffer, perFragmentTimingEnabled)
        run == runFragmentsTimed(frags, 1, <<>>)
    IN  [ reset EXCEPT !.written = << run.succeeded >> \o run.times,
                       !.batch = [ frags |-> frags,
                                   status |-> IF run.failed THEN "Error" ELSE "Ok" ] ]

ExecutePlanFragments(frags, perFragmentTimingEnabled) ==
    /\ stats' = executePlanFragments(stats, frags, perFragmentTimingEnabled)
    /\ UNCHANGED << viewVars, undoVars, histVars, ipc, reg, rx, query >>

-----------------------------------------------------------------------------
(* The read loop of main: a message is its four-byte msgsize header and    *)
(* then the rest of its msg_size bytes; every read may return fewer bytes  *)
(* than asked for.                                                         *)
MaxMsgSize == 10
MaxMessages == 2
MaxFill == 7
sizeof_ipc_command == 8
\* max_ipc_message_size at start (2 MB in the code, scaled to the bounds)
InitialMaxIpcMessageSize == 9
MsgSizes == sizeof_ipc_command..MaxMsgSize

\* the bytes of the k-th message of the host, msg_size bytes long: behind
\* the header every byte tells its message and its position
HostMessage(msg_size, k) ==
    htonl(msg_size) \o [ i \in 1..(msg_size - 4) |-> 16 * k + i + 4 ]

Zeros(n) == [ i \in 1..n |-> 0 ]

NoDispatch == [ cmd |-> <<>>, bytesread |-> 0, reads |-> 0 ]
RxInit == [ pc |-> "header", stream |-> <<>>, closed |-> FALSE, sent |-> 0,
            expected |-> <<>>, data |-> Zeros(InitialMaxIpcMessageSize),
            max_ipc_message_size |-> InitialMaxIpcMessageSize,
            bytesread |-> 0, msg_size |-> 0, reads |-> 0,
            dispatched |-> NoDispatch ]

\* mutant of readInto: every read of the body lands right behind the
\* header, not behind the bytes already read
readInto_BodyBehindHeader(data, bytesread, bytes) ==
    LET at == IF bytesread > 4 THEN 4 ELSE bytesread
    IN  [ i \in 1..Len(data) |->
            IF i > at /\ i <= at + Len(bytes) THEN bytes[i - at] ELSE data[i] ]

\* read(fd, data + bytesread, b): the next b bytes of the stream land in
\* the buffer behind the bytes already read
readInto(data, bytesread, bytes) ==
    [ i \in 1..Len(data) |->
        IF i > bytesread /\ i <= bytesread + Len(bytes) THEN bytes[i - bytesread] ELSE data[i] ]

\* the buffer once the header is in: a message larger than the buffer gets
\* a new zeroed buffer with the four header bytes copied over
growBuffer(data, max_ipc_message_size, msg_size) ==
    IF msg_size > max_ipc_message_size
    THEN [ i \in 1..msg_size |-> IF i <= 4 THEN data[i] ELSE 0 ]
    ELSE data

\* bytesread < msg_size with bytesread a size_t and msg_size an int: the
\* int is converted to size_t, a negative one to a value above every count
lessThanSizeT(bytesread, msg_size) == msg_size < 0 \/ bytesread < msg_size

\* what a read can do that ends at byte `end` of a buffer of `capacity`
OverrunChoices(end, capacity) ==
    IF end <= capacity THEN { "none" } ELSE { "fault", "overwrite" }

\* the host writes a whole message to the socket, or closes it
HostWrite(msg_size) ==
    /\ ~rx.closed
    /\ rx.sent < MaxMessages
    /\ rx' = [ rx EXCEPT !.stream = @ \o HostMessage(msg_size, rx.sent + 1),
                         !.expected = Append(@, HostMessage(msg_size, rx.sent + 1)),
                         !.sent = @ + 1 ]
    /\ UNCHANGED << viewVars, undoVars, histVars, ipc, reg, stats, query >>

HostClose ==
    /\ ~rx.closed
    /\ rx' = [ rx EXCEPT !.closed = TRUE ]
    /\ UNCHANGED << viewVars, undoVars, histVars, ipc, reg, stats, query >>

\* one pass of the header loop: read up to 4 - bytesread bytes; with the
\* fourth byte msg_size is known, the buffer grows if it must, and the
\* body loop is entered unless the message is complete
ReadHeader(b) ==
    /\ rx.pc = "header"
    /\ b \in 1..(4 - rx.bytesread)
    /\ b <= Len(rx.stream)
    /\ \E d \in { readInto(rx.data, rx.bytesread, SubSeq(rx.stream, 1, b)) } :
         LET bytesread == rx.bytesread + b
             msg_size == ntohl(SubSeq(d, 1, 4))
         IN  rx' = IF bytesread < 4
                   THEN [ rx EXCEPT !.data = d, !.bytesread = bytesread,
                                    !.stream = SubSeq(@, b + 1, Len(@)),
                                    !.reads = @ + 1 ]
                   ELSE [ rx EXCEPT !.data = growBuffer(d, rx.max_ipc_message_size, msg_size),
                                    !.max_ipc_message_size =
                                        IF msg_size > @ THEN msg_size ELSE @,
                                    !.bytesread = bytesread,
                                    !.msg_size = msg_size,
                                    !.stream = SubSeq(@, b + 1, Len(@)),
                                    !.reads = @ + 1,
                                    !.pc = IF lessThanSizeT(bytesread, msg_size)
                                           THEN "body" ELSE "execute" ]
    /\ UNCHANGED << viewVars, undoVars, histVars, ipc, reg, stats, query >>

\* one pass of the body loop: read up to msg_size - bytesread bytes, the
\* count taken in size_t.  A read that runs over the end of the buffer is
\* undefined: it faults (read returns -1: goto done) or overwrites what
\* lies behind the buffer
ReadBody(b, overrun) ==
    /\ rx.pc = "body"
    /\ b \in 1..Len(rx.stream)
    /\ IF rx.msg_size < 0 THEN TRUE ELSE b <= rx.msg_size - rx.bytesread
    /\ overrun \in OverrunChoices(rx.bytesread + b, rx.max_ipc_message_size)
    /\ rx' = IF overrun = "fault"
             THEN [ rx EXCEPT !.pc = "done", !.reads = @ + 1 ]
             ELSE [ rx EXCEPT !.data = readInto(@, rx.bytesread, SubSeq(rx.stream, 1, b)),
                              !.bytesread = @ + b,
                              !.stream = SubSeq(@, b + 1, Len(@)),
                              !.reads = @ + 1,
                              !.pc = IF lessThanSizeT(rx.bytesread + b, rx.msg_size)
                                     THEN "body" ELSE "execute" ]
    /\ UNCHANGED << viewVars, undoVars, histVars, ipc, reg, stats, query >>

\* a read returns 0 at the end of a closed stream ("client eof"), or -1
\* ("client error"): goto done
ReadEof ==
    /\ rx.pc \in { "header", "body" }
    /\ rx.closed
    /\ rx.stream = <<>>
    /\ rx' = [ rx EXCEPT !.pc = "done" ]
    /\ UNCHANGED << viewVars, undoVars, histVars, ipc, reg, stats, query >>

ReadError ==
    /\ rx.pc \in { "header", "body" }
    /\ rx' = [ rx EXCEPT !.pc = "done" ]
    /\ UNCHANGED << viewVars, undoVars, histVars, ipc, reg, stats, query >>

\* the dispatch: execute gets the first msg_size bytes of the buffer, and
\* the loop starts over with bytesread = 0
Dispatch ==
    /\ rx.pc = "execute"
    /\ rx.msg_size >= sizeof_ipc_command
    /\ rx.expected # <<>>
    /\ rx' = [ rx EXCEPT !.dispatched = [ cmd |-> SubSeq(rx.data, 1, rx.msg_size),
                                          bytesread |-> rx.bytesread,
                                          reads |-> rx.reads ],
                         !.expected = Tail(@),
                         !.bytesread = 0,
                         !.reads = 0,
                         !.pc = "header" ]
    /\ UNCHANGED << viewVars, undoVars, histVars, ipc, reg, stats, query >>

\* a host that writes any header: the four bytes of msgsize and then fill
\* bytes of zeros, once
HeaderValues == (0..(MaxMsgSize + 1)) \cup { -1, -2147483647 }

HostWriteHeader(msgsize, fill) ==
    /\ ~rx.closed
    /\ rx.sent = 0
    /\ rx' = [ rx EXCEPT !.stream = htonl(msgsize) \o Zeros(fill), !.sent = 1 ]
    /\ UNCHANGED << viewVars, undoVars, histVars, ipc, reg, stats, query >>

\* the dispatch of a message shorter than an ipc_command: the assert of
\* the loop aborts, or, compiled out, execute gets the buffer as it is
DispatchShort(assertsOn) ==
    /\ rx.pc = "execute"
    /\ rx.msg_size < sizeof_ipc_command
    /\ rx' = IF assertsOn
             THEN [ rx EXCEPT !.pc = "done" ]
             ELSE [ rx EXCEPT !.dispatched = [ cmd |-> SubSeq(rx.data, 1, rx.bytesread),
                                               bytesread |-> rx.bytesread,
                                               reads |-> rx.reads ],
                              !.bytesread = 0,
                              !.reads = 0,
                              !.pc = "header" ]
    /\ UNCHANGED << viewVars, undoVars, histVars, ipc, reg, stats, query >>

-----------------------------------------------------------------------------
(* The message of a batch command (querypfs): the 40-byte header, the n    *)
(* fragment ids of 8 bytes each, then the serialized parameter sets, one   *)
(* per fragment, to the end of the message.  Positions count bytes from    *)
(* the start of the message.                                               *)
MaxFragmentIds == 9
MaxParamBytes == 10
sizeof_querypfs == 40
sizeof_int64_t == 8
sizeof_int32_t == 4

NoQuery == [ msgsize |-> 0, numFragmentIds |-> 0, offset |-> 0, sz |-> 0, status |-> "none" ]

\* the length of the parameter input: msgsize less the header and less
\* sizeof(int32_t) for every fragment id.  The difference is taken in
\* size_t and cast to int, which yields the signed difference for the
\* message sizes here (all below 2^31)
paramsSize(msgsize, numFragmentIds) ==
    msgsize - sizeof_querypfs - sizeof_int32_t * numFragmentIds

\* ReferenceSerializeInput serialize_in(offset, sz) of the batch command
serialize_in(msgsize, numFragmentIds) ==
    [ msgsize |-> msgsize, numFragmentIds |-> numFragmentIds,
      offset |-> sizeof_querypfs + sizeof_int64_t * numFragmentIds,
      sz |-> paramsSize(msgsize, numFragmentIds),
      status |-> "bound" ]

\* command 6 with n fragment ids and one parameter set per fragment: a
\* 16-bit parameter count each, and paramBytes bytes of parameters in all
QueryPlanFragments(n, paramBytes) ==
    /\ query' = serialize_in(sizeof_querypfs + sizeof_int64_t * n + 2 * n + paramBytes, n)
    /\ UNCHANGED << viewVars, undoVars, histVars, ipc, reg, stats, rx >>

-----------------------------------------------------------------------------
Init ==
    /\ sourceTable = EmptyTable
    /\ destTable = InitialViews
    /\ viewFatal = FALSE
    /\ lastOp = "none"
    /\ ec = EcInit
    /\ undoLog = <<>>
    /\ currentQuantum = NoQuantum
    /\ engineDown = FALSE
    /\ maxOpened = NoQuantum
    /\ seq = NoSeq
    /\ undoCheck = NoCheck
    /\ ipc = IpcInit
    /\ reg = RegInit
    /\ stats = StatsInit
    /\ rx = RxInit
    /\ query = NoQuery

\* view maintenance: source inserts and deletes with their notifications
Next ==
    \/ \E r \in AllRows : InsertTuple(r, NoRaise)
    \/ \E r \in AllRows : DeleteTuple(r, NoRaise)

Spec == Init /\ [][Next]_vars

\* view maintenance with handlers that may end by an exception
NextRaise ==
    \/ \E r \in AllRows, raise \in RaiseChoices : InsertTuple(r, raise)
    \/ \E r \in AllRows, raise \in RaiseChoices : DeleteTuple(r, raise)

SpecRaise == Init /\ [][NextRaise]_vars

\* view maintenance with deletes whose first fallback plan may raise: the
\* runs up to the first statement that ends by such an exception
NextFallback ==
    \/ ec.thrown = <<>> /\ \E r \in AllRows : InsertTuple(r, NoRaise)
    \/ ec.thrown = <<>> /\ \E r \in AllRows : DeleteTuple(r, NoRaise)
    \/ ec.thrown = <<>> /\ \E r \in AllRows, vid \in ViewIds :
          DeleteTuple(r, [ at |-> vid, kind |-> "fallback" ])

SpecFallback == Init /\ [][NextFallback]_vars

\* view maintenance over views that may lose a row: the runs up to the
\* first delete from a source table whose view has lost a row
NextDesync ==
    \/ GroupsPresent /\ \E r \in AllRows : InsertTuple(r, NoRaise)
    \/ (GroupsPresent \/ lastOp = "corrupt") /\ \E r \in AllRows : DeleteTuple(r, NoRaise)
    \/ GroupsPresent /\ \E vid \in ViewIds : \E t \in destTable[vid] : LoseViewRow(vid, t)

SpecDesync == Init /\ [][NextDesync]_vars

\* handler construction and destruction, source tables added and dropped
NextInstall ==
    \/ \E dest \in DestTables, aggTypes \in InstallAggTypeLists :
          \E sources \in SourcesFor(dest), ub \in DanglingChoices(dest) :
            Construct(dest, 1, aggTypes, sources, -1, ub)
    \/ \E h \in Handlers, table \in SourceTables : AddSourceTable(h, table)
    \/ \E h \in Handlers, table \in SourceTables : DropSourceTable(h, table)
    \/ \E dest \in DestTables : \E ub \in DanglingChoices(dest) : Destroy(dest, ub)

SpecInstall == Init /\ [][NextInstall]_vars

\* the aggregate set-up of the first handler built for a view, over every
\* list of aggregate types
NextAggregate ==
    \/ \E gbc \in GroupByCounts, aggTypes \in AggTypeLists :
          \E garbage \in GarbageChoices(aggTypes) :
            /\ FreshHandlers = Handlers
            /\ Construct("VP", gbc, aggTypes, {"TP"}, garbage, "runs")
    \/ \E ub \in DanglingChoices("VP") : Destroy("VP", ub)

SpecAggregate == Init /\ [][NextAggregate]_vars

\* the engines attach their handlers to the replicated table and detach them
NextLock ==
    \/ \E e \in Engines : StartAttach(e)
    \/ \E e \in Engines : StartDetach(e)
    \/ \E e \in Engines : lockReplicatedResource(e)
    \/ \E e \in Engines : BeginViewHandlerCall(e)
    \/ \E e \in Engines : EndViewHandlerCall(e)
    \/ \E e \in Engines : unlockReplicatedResource(e)

SpecLock == Init /\ [][NextLock]_vars

\* attach and detach, and the notifications of the attached wrappers
NextShim ==
    \/ \E e \in Engines : StartAttach(e)
    \/ \E e \in Engines : StartDetach(e)
    \/ \E e \in Engines : lockReplicatedResource(e)
    \/ \E e \in Engines : BeginViewHandlerCall(e)
    \/ \E e \in Engines : EndViewHandlerCall(e)
    \/ \E e \in Engines : unlockReplicatedResource(e)
    \/ \E kind \in {"insert", "delete"}, raiseAt \in Engines \cup { NoEngine } :
          NotifyWrappers(kind, raiseAt)

SpecShim == Init /\ [][NextShim]_vars

\* the read loop of main against a host that writes whole messages
NextRead ==
    \/ \E n \in MsgSizes : HostWrite(n)
    \/ HostClose
    \/ \E b \in 1..4 : ReadHeader(b)
    \/ \E b \in 1..MaxMsgSize, overrun \in { "none" } : ReadBody(b, overrun)
    \/ ReadEof
    \/ ReadError
    \/ Dispatch

SpecRead == Init /\ [][NextRead]_vars

\* the read loop of main against a host that writes any header
NextHeader ==
    \/ \E msgsize \in HeaderValues, fill \in 0..MaxFill : HostWriteHeader(msgsize, fill)
    \/ HostClose
    \/ \E b \in 1..4 : ReadHeader(b)
    \/ \E b \in 1..MaxFill, overrun \in { "none", "fault", "overwrite" } : ReadBody(b, overrun)
    \/ ReadEof
    \/ ReadError
    \/ DispatchShort(TRUE)
    \/ DispatchShort(FALSE)
    \/ rx.sent = 0 /\ \E n \in MsgSizes : HostWrite(n)
    \/ Dispatch

SpecHeader == Init /\ [][NextHeader]_vars

\* batch commands of every fragment count and parameter length
NextQuery ==
    \E n \in 0..MaxFragmentIds, paramBytes \in 0..MaxParamBytes : QueryPlanFragments(n, paramBytes)

SpecQuery == Init /\ [][NextQuery]_vars

\* batches through the engine, one after the other
NextStats ==
    \E frags \in FragmentRuns, perFragmentTimingEnabled \in TimingFlags :
        ExecutePlanFragments(frags, perFragmentTimingEnabled)

SpecStats == Init /\ [][NextStats]_vars

\* the undo-token calls of the engine around undoable mutations
NextUndo ==
    \/ \E t \in TokenArgs : SetUndoToken(t)
    \/ \E r \in UndoRows : UndoableInsert(r)
    \/ \E r \in UndoRows : UndoableDelete(r)
    \/ \E t \in TokenArgs : ReleaseUndoToken(t)
    \/ \E t \in TokenArgs : UndoUndoToken(t)

SpecUndo == Init /\ [][NextUndo]_vars

\* the undo-token calls alone, on quanta that log no mutation
NextToken ==
    \/ \E t \in TokenArgs : SetUndoToken(t)
    \/ \E t \in TokenArgs : ReleaseUndoToken(t)
    \/ \E t \in TokenArgs : UndoUndoToken(t)

SpecToken == Init /\ [][NextToken]_vars

\* the exception length the engine stores in the command loop's runs
ShortExceptions == { 1 }

\* the undo tokens the host sends
HostTokens == (1..MaxQuanta) \cup {INT64_MAX}

\* whether asserts are compiled in matters to setUndoToken only when the
\* token is below the current quantum's
AssertChoices(token) ==
    IF currentQuantum # NoQuantum /\ token < currentQuantum THEN BOOLEAN ELSE {TRUE}

\* the command loop of the IPC process with its host
NextIpc ==
    \/ HostEof
    \/ HostReadError
    \/ \E net \in NetChoicesFor(<< 1 >>) : StubCommand(net)
    \/ \E code \in SimpleCodes, ok \in BOOLEAN, net \in NetChoicesFor(<< 1 >>),
          term \in BOOLEAN :
         SimpleCommand(code, ok, net, term, EmptyPayload)
    \/ \E token \in HostTokens, ok \in BOOLEAN, net \in NetChoicesFor(<< 1 >>) :
         \E assertsOn \in AssertChoices(token) : LoadTable(token, ok, net, assertsOn)
    \/ \E code \in UndoCodes, token \in HostTokens, net \in NetChoicesFor(<< 1 >>) :
         UndoCommand(code, token, net)
    \/ \E ok \in BOOLEAN, net \in NetChoices, assertsOn \in BOOLEAN :
         GetStats(ok, net, assertsOn, ShortExceptions)
    \/ \E frags \in Batches, token \in HostTokens :
         \E assertsOn \in AssertChoices(token) : ExecuteBatch(frags, token, assertsOn, ShortExceptions)
    \/ \E kind \in FragKinds, token \in HostTokens :
         \E assertsOn \in AssertChoices(token) : ExecuteFragment(kind, token, assertsOn, ShortExceptions)
    \/ \E kind \in FragKinds, token \in HostTokens, assertsOn \in BOOLEAN :
         ExecuteCustom(kind, token, assertsOn, ShortExceptions)
    \/ \E bufferLength \in CowBufferLengths, serialized \in -1..(MAX_MSG_SZ - 5),
          net \in NetChoices, assertsOn \in BOOLEAN :
         CowSerializeMore(bufferLength, serialized, net, assertsOn)

SpecIpc == Init /\ [][NextIpc]_vars

\* the execute commands and getStats with exceptions of every length class,
\* on an engine whose undo log the host does not release or undo
NextException ==
    \/ HostEof
    \/ \E ok \in BOOLEAN, net \in NetChoicesFor(<< 1 >>) : SimpleCommand(0, ok, net, FALSE, EmptyPayload)
    \/ \E ok \in BOOLEAN, net \in NetChoices, assertsOn \in BOOLEAN :
         GetStats(ok, net, assertsOn, ExceptionLengths)
    \/ \E frags \in Batches, token \in HostTokens :
         \E assertsOn \in AssertChoices(token) :
            ExecuteBatch(frags, token, assertsOn, ExceptionLengths)
    \/ \E kind \in FragKinds, token \in HostTokens :
         \E assertsOn \in AssertChoices(token) :
            ExecuteFragment(kind, token, assertsOn, ExceptionLengths)
    \/ \E kind \in FragKinds, token \in HostTokens, assertsOn \in BOOLEAN :
         ExecuteCustom(kind, token, assertsOn, ExceptionLengths)

SpecException == Init /\ [][NextException]_vars

\* the catalog commands of the host, with catalogs and diffs over Items
NextCatalog ==
    \/ HostEof
    \/ \E ok \in BOOLEAN, net \in NetChoicesFor(<< 1 >>) :
         SimpleCommand(0, ok, net, FALSE, EmptyPayload)
    \/ \E code \in CatalogCodes, ok \in BOOLEAN, net \in NetChoicesFor(<< 1 >>),
          term \in BOOLEAN, payload \in CatalogPayloads :
         SimpleCommand(code, ok, net, term, payload)

SpecCatalog == Init /\ [][NextCatalog]_vars

\* the dependency sub-protocol between the engine and the host
NextDep ==
    \/ \E dependencyId \in 1..MaxDepId, written \in {-1, 3, 5} :
         DepRequest(dependencyId, written)
    \/ \E responseCode \in ResponseCodes, read \in -1..1 : DepStatus(responseCode, read)
    \/ \E lengthBytes \in DepLengthBytes, read \in {-1, 0, 2, 4} :
         DepLength(lengthBytes, read)
    \/ \E read \in -1..MaxDepLen : DepData(read)

SpecDep == Init /\ [][NextDep]_vars

-----------------------------------------------------------------------------
(* Claims about the view maintainer (Spec) *)

\* C1: after any sequence of source inserts and deletes, every view table
\* equals the result of the view's create-query over the current source
\* rows (as a set of rows, so modulo row order), NULL values included.
C1_ViewEqualsCreateQuery ==
    \A vid \in ViewIds : destTable[vid] = CreateQuery(Handler(vid), sourceTable)

\* the number of source rows in the group of view row t
SourceCountOfGroup(h, t) == SumOver(GroupRows(sourceTable, GroupKey(h, t)), sourceTable)

\* C2: in every reachable state the COUNT(*) column of each view row equals
\* the number of source rows currently in that row's group.
C2_CountStarIsGroupSize ==
    \A vid \in ViewIds : \A t \in destTable[vid] :
        getNValue(t, Handler(vid).m_countStarColumnIndex)
            = IntValue(SourceCountOfGroup(Handler(vid), t))

\* C2 witness: after a delete from a group of three source rows, the
\* group's view row counts the two rows that remain.
C2_Witness ==
    /\ lastOp = "delete"
    /\ \E t \in destTable["VG"] : getNValue(t, Handler("VG").m_countStarColumnIndex) = IntValue(2)

\* the row of an empty view without GROUP BY: 0 in the counts, NULL elsewhere
EmptyViewRow(h) ==
    [ c \in 1..h.m_aggColumnCount |->
        IF h.m_aggTypes[c] \in {AGG_COUNT, AGG_COUNT_STAR} THEN IntValue(0) ELSE NullValue ]

\* C3: a view without group-by columns holds exactly one row in every
\* state (a delete never removes it), and after a delete that empties the
\* source the row is 0 in every COUNT / COUNT(*) column and NULL in every
\* other aggregate column.
C3_NoGroupByViewKeepsOneRow ==
    \A vid \in ViewIds :
        Handler(vid).m_groupByColumnCount = 0 =>
            /\ Cardinality(destTable[vid]) = 1
            /\ (lastOp = "delete" /\ BagSize(sourceTable) = 0)
                  => destTable[vid] = { EmptyViewRow(Handler(vid)) }

\* C3 witness: the delete of the last source row has run and left the
\* ungrouped view with its one row of zero counts and NULLs.
C3_Witness ==
    /\ lastOp = "delete"
    /\ BagSize(sourceTable) = 0
    /\ destTable["V0"] = { EmptyViewRow(Handler("V0")) }

-----------------------------------------------------------------------------
(* Claims about the undo tokens (SpecUndo) *)

\* C4: for every sequence setUndoToken(t), table mutations, undoUndoToken(t)
\* the source and view tables afterwards equal the tables immediately
\* before the setUndoToken(t) call.  Stated for the calls that generated a
\* quantum for t: the calls that return early open nothing to rewind.
C4_RewindRestoresTables ==
    (undoCheck.pending /\ undoCheck.opened) => undoCheck.restored

\* C5 as stated: setUndoToken(t) leaves the undo log and the current quantum
\* as they are when t = INT64_MAX or t is the current quantum's token; in
\* every other case it makes a newly generated quantum with token t current.
C5_SetUndoTokenEveryOtherCase ==
    [][ \A t \in TokenArgs :
          SetUndoToken(t) =>
              IF t = INT64_MAX \/ t = currentQuantum
              THEN undoLog' = undoLog /\ currentQuantum' = currentQuantum
              ELSE /\ currentQuantum' = t
                   /\ undoLog' = Append(undoLog, [ token |-> t, actions |-> <<>> ]) ]_vars

\* C5 amended: the same, except for a call with t below the current
\* quantum's token in a build with assertions: there the vassert stops the
\* engine, and the undo log and the current quantum stay as they are.
C5_SetUndoTokenContract ==
    [][ \A t \in TokenArgs :
          SetUndoToken(t) =>
              IF t = INT64_MAX \/ t = currentQuantum
              THEN undoLog' = undoLog /\ currentQuantum' = currentQuantum /\ ~engineDown'
              ELSE IF engineDown'
              THEN /\ currentQuantum # NoQuantum /\ t < currentQuantum
                   /\ undoLog' = undoLog /\ currentQuantum' = currentQuantum
              ELSE /\ currentQuantum' = t
                   /\ undoLog' = Append(undoLog, [ token |-> t, actions |-> <<>> ]) ]_vars

\* C5 witness: a setUndoToken(2) call made while quantum 1 was current has
\* opened quantum 2 behind it.
C5_Witness ==
    /\ seq.token = 2 /\ seq.opened
    /\ currentQuantum = 2
    /\ Len(undoLog) = 2 /\ undoLog[1].token = 1

\* C6: the tokens for which setUndoToken generates a quantum are strictly
\* increasing over the whole session: a call that generates a quantum has a
\* token greater than every token a quantum was generated for before.
C6_OpenedTokensIncrease ==
    [][ \A t \in TokenArgs :
          (SetUndoToken(t) /\ undoLog' # undoLog) => t > maxOpened ]_vars

-----------------------------------------------------------------------------
(* Claims about the command loop (SpecIpc) *)

\* C7: after a command the loop writes the reply and reads on; it stops only
\* on terminate or at the end of the host connection, whatever the command
\* code and result, Error included.  Stops that the host connection itself
\* causes (a read error, a reply write that does not go out in full) and the
\* abort of a failed assertion are not held against the loop here.
C7_LoopStopsOnlyOnTerminateOrEof ==
    ipc.pc = "stopped" =>
        ipc.stop \in {"terminate", "eof", "readerror", "write", "assert"}

\* C8: in a batch (command 6) no fragment runs after a fragment that failed:
\* every executed fragment but the last one succeeded.
C8_BatchStopsAtFirstFailure ==
    ipc.cmd = 6 =>
        \A i \in 1..(Len(ipc.executed) - 1) : ipc.executed[i]

\* C9: an execute command that replied Error leaves no mutation of its
\* fragments behind: the tables are as they were before the command.
C9_FailedCommandIsRewound ==
    (ipc.cmd \in ExecCodes /\ ipc.result = kErrorCode_Error) => ipc.restored

\* C10: for a successful execute command (6, 7, 12) whose writes all went out
\* in full, the bytes the host got are one Success byte followed by the
\* serialized results, and nothing else.
C10_SuccessReplyIsStatusThenPayload ==
    (ipc.cmd \in ExecCodes /\ ipc.result = kErrorCode_Success /\ ipc.netOk) =>
        ipc.wire = << kErrorCode_Success >> \o ipc.payload

\* C11: for a failed execute command (6, 7, 12) whose writes the host took in
\* full, the reply is the Error byte followed by exactly length + 2 bytes of
\* the exception buffer, length being the 16-bit value the buffer starts
\* with, whatever that value is.
C11_ExceptionReplyIsLengthPlusTwo ==
    (ipc.cmd \in ExecCodes /\ ipc.result = kErrorCode_Error /\ ipc.netOk) =>
        /\ Len(ipc.wire) = 1 + ipc.excLength + 2
        /\ ipc.wire[1] = kErrorCode_Error
        /\ \A i \in 2..Len(ipc.wire) : ipc.wire[i] = ExceptionBytes(i - 1)[i - 1]

\* C12: when the results of a successful command 6 or 7 overflowed the fixed
\* result buffer into the heap fallback buffer, the reply reads nothing past
\* the capacity of the fixed buffer, and the result bytes the host gets
\* (after the status byte, all writes taken in full) are getResultsSize()
\* bytes of the buffer getResultsBuffer() denotes.
C12_OverflowReplyIsActiveBuffer ==
    (ipc.cmd \in {6, 7} /\ ipc.result = kErrorCode_Success /\ ipc.fallback) =>
        /\ ipc.readSize <= MAX_MSG_SZ
        /\ ipc.netOk =>
              /\ Len(ipc.wire) = 1 + Len(ipc.payload)
              /\ \A i \in 2..Len(ipc.wire) : ipc.wire[i] = ipc.payload[i - 1]

\* C13: command 19 (UpdateCatalog) reaches the engine's catalog update and
\* leaves the current catalog with the payload's diff applied; command 2
\* (LoadCatalog) reaches the engine's catalog load and leaves the payload's
\* catalog in place of the current one.
C13_UpdateAndLoadCatalogDiffer ==
    /\ ipc.cmd = 19 =>
          /\ ipc.engineOp = "updateCatalog"
          /\ ipc.result = kErrorCode_Success =>
                ipc.catalog = engine_updateCatalog(ipc.catalogBefore, ipc.catalogPayload)
    /\ ipc.cmd = 2 =>
          /\ ipc.engineOp = "loadCatalog"
          /\ ipc.result = kErrorCode_Success =>
                ipc.catalog = engine_loadCatalog(ipc.catalogBefore, ipc.catalogPayload)

\* the writes and reads of one call in the order of lines 639-700
DepTraceInOrder(trace) ==
    /\ Len(trace) >= 1 => trace[1] = "write"
    /\ Len(trace) >= 2 => trace[2] = "readStatus"
    /\ Len(trace) >= 3 => trace[3] = "readLength"
    /\ \A i \in 4..Len(trace) : trace[i] = "readData"

\* C14: a call of retrieveDependency first writes the RetrieveDependency
\* byte and the 4-byte dependency id, then reads one status byte.  It
\* returns null only on DependencyNotFound, right after that read; on
\* DependencyFound it goes on to read the 4-byte length and after it the
\* dependency bytes, returning data only when all of them came; on any other
\* status it stops the process and does not return.
C14_DependencySubProtocol ==
    LET d == ipc.dep
    IN  /\ DepTraceInOrder(d.trace)
        /\ Len(d.trace) >= 2 =>
              /\ Len(d.message) = 5
              /\ d.message[1] = kErrorCode_RetrieveDependency
              /\ \E id \in 1..MaxDepId : SubSeq(d.message, 2, 5) = htonl(id)
        /\ d.result = "null" <=>
              (d.responseCode = kErrorCode_DependencyNotFound /\ Len(d.trace) = 2)
        /\ (d.responseCode = kErrorCode_DependencyFound /\ d.pc # "exited") =>
              /\ Len(d.trace) >= 3 \/ d.pc = "readLength"
              /\ d.result = "data" =>
                    (Len(d.trace) >= 3 /\ d.bytes = d.dependencyLength)
        /\ d.result = "data" => d.responseCode = kErrorCode_DependencyFound
        /\ d.responseCode \notin { "none", kErrorCode_DependencyFound,
                                   kErrorCode_DependencyNotFound } =>
              (d.pc = "exited" /\ d.result = "exit" /\ Len(d.trace) = 2)

\* C14 witness: a dependency of MaxDepLen bytes came in more than one read
C14_Witness ==
    /\ ipc.dep.result = "data"
    /\ ipc.dep.dependencyLength = MaxDepLen
    /\ Len(ipc.dep.trace) > 4

\* the rows a step added to the source table, the rows it took away, and
\* the view rows of a group before the step
InsertedRows == [ x \in AllRows |->
                    IF sourceTable'[x] > sourceTable[x] THEN sourceTable'[x] - sourceTable[x]
                    ELSE 0 ]
DeletedRows == [ x \in AllRows |->
                   IF sourceTable'[x] < sourceTable[x] THEN sourceTable[x] - sourceTable'[x]
                   ELSE 0 ]
ExistingRows(vid, d) ==
    { e \in destTable[vid] : GroupKey(Handler(vid), e) = GroupKey(Handler(vid), d) }

\* the smaller and the larger of two integer values
SmallerOf(a, b) == IF intOf(a) <= intOf(b) THEN a ELSE b
LargerOf(a, b) == IF intOf(a) >= intOf(b) THEN a ELSE b

\* C15: on an insert, for every view and every row d of the delta: if a view
\* row existed for d's group, the row after the insert keeps the group key
\* and has in each aggregate column c existing[c] if d[c] is NULL, d[c] if
\* existing[c] is NULL, else existing[c] + d[c] for SUM, COUNT and COUNT(*),
\* the smaller of the two for MIN and the larger for MAX; if no row existed,
\* d itself is in the view.
C15_InsertMergeRules ==
    [][ (lastOp' = "insert" /\ BagSize(InsertedRows) > 0) =>
          \A vid \in ViewIds : \A d \in CreateQuery(Handler(vid), InsertedRows) :
             LET h == Handler(vid)
                 merged(e) ==
                    [ c \in 1..Len(e) |->
                        IF c <= h.m_groupByColumnCount THEN e[c]
                        ELSE IF isNull(d[c]) THEN e[c]
                        ELSE IF isNull(e[c]) THEN d[c]
                        ELSE CASE h.m_aggTypes[c - h.m_groupByColumnCount]
                                    \in {AGG_SUM, AGG_COUNT, AGG_COUNT_STAR} ->
                                      IntValue(intOf(e[c]) + intOf(d[c]))
                               [] h.m_aggTypes[c - h.m_groupByColumnCount] = AGG_MIN ->
                                      SmallerOf(e[c], d[c])
                               [] h.m_aggTypes[c - h.m_groupByColumnCount] = AGG_MAX ->
                                      LargerOf(e[c], d[c]) ]
             IN  IF ExistingRows(vid, d) = {}
                 THEN d \in destTable'[vid]
                 ELSE \A e \in ExistingRows(vid, d) : merged(e) \in destTable'[vid]
      ]_vars

\* C15 witness: an insert merged into the row of a group that now counts two
\* source rows with different values (MIN below MAX), while the other group
\* got its first row unchanged at some point
C15_Witness ==
    /\ lastOp = "insert"
    /\ \E t \in destTable["VG"] :
         t[2] = IntValue(2) /\ ~isNull(t[5]) /\ ~isNull(t[6]) /\ t[5] # t[6]
    /\ Cardinality(destTable["VG"]) = 2

\* C16: on a delete, for every view and every row d of the delta, the view
\* row e of d's group is gone afterwards if and only if
\* e[count_star] - d[count_star] = 0 and the view has a group-by column;
\* otherwise a row of the group is still there and it is the merge-for-delete
\* of e and d.
C16_DeleteOrMerge ==
    [][ (lastOp' = "delete" /\ BagSize(DeletedRows) > 0 /\ ~viewFatal') =>
          \A vid \in ViewIds : \A d \in CreateQuery(Handler(vid), DeletedRows) :
             \A e \in ExistingRows(vid, d) :
                LET h == Handler(vid)
                    cs == h.m_countStarColumnIndex
                    emptied == intOf(getNValue(e, cs)) - intOf(getNValue(d, cs)) = 0
                    after == { t \in destTable'[vid] : GroupKey(h, t) = GroupKey(h, e) }
                IN  /\ after = {} <=> (emptied /\ h.m_groupByColumnCount > 0)
                    /\ after # {} =>
                          after = { mergeTupleForDelete(h, e, d, sourceTable') }
      ]_vars

\* C16 witness: a delete took the last source row: the grouped view lost the
\* row of the group, the view without group-by kept its row
C16_Witness ==
    /\ lastOp = "delete"
    /\ destTable["VG"] = {}
    /\ Cardinality(destTable["V0"]) = 1

\* C17: on a delete that leaves a non-zero count in the view row e of the
\* delta row d's group, each aggregate column c of the row afterwards is
\* e[c] - d[c] for SUM, COUNT and COUNT(*) when d[c] is not NULL, e[c] when
\* d[c] is NULL; a MIN or MAX column holds the result of the fallback query
\* if d[c] is not NULL and e[c] = d[c], and e[c] in every other case.
C17_MergeForDeleteRules ==
    [][ (lastOp' = "delete" /\ BagSize(DeletedRows) > 0 /\ ~viewFatal') =>
          \A vid \in ViewIds : \A d \in CreateQuery(Handler(vid), DeletedRows) :
             \A e \in ExistingRows(vid, d) :
                LET h == Handler(vid)
                    gbc == h.m_groupByColumnCount
                    cs == h.m_countStarColumnIndex
                    newCount == intOf(getNValue(e, cs)) - intOf(getNValue(d, cs))
                    expected ==
                       [ c \in 1..Len(e) |->
                           IF c <= gbc THEN e[c]
                           ELSE IF isNull(d[c]) THEN e[c]
                           ELSE IF h.m_aggTypes[c - gbc] \in {AGG_SUM, AGG_COUNT, AGG_COUNT_STAR}
                           THEN op_subtract(e[c], d[c])
                           ELSE IF e[c] = d[c]
                           THEN fallbackMinMaxColumn(h, e, c - 1,
                                    minMaxColumnIndexAt(h, c - 1 - gbc), sourceTable',
                                    ec.params).newValue
                           ELSE e[c] ]
                IN  newCount # 0 => expected \in destTable'[vid]
      ]_vars

\* C17 witness: a delete left one row with value 2 in group 1, whose view row
\* counts 1 and has 2 as SUM, MIN and MAX
C17_Witness ==
    /\ lastOp = "delete"
    /\ << IntValue(1), IntValue(1), IntValue(2), IntValue(1), IntValue(2), IntValue(2) >>
          \in destTable["VG"]

\* C18: every fallback min/max query of the last delete ran with the
\* parameter entries 0..group_by_count set to the group-by key values in
\* order, then the current extremum; its single scalar result (NULL when the
\* result is empty) is the new extremum, which the view row holds after the
\* delete; and after the call the parameter array is what it was before it.
C18_FallbackRestoresParams ==
    \A k \in 1..Len(ec.log) :
        LET c == ec.log[k]
            gbc == c.groupByColumnCount
        IN  /\ \A i \in 1..gbc : c.during[i] = getNValue(c.existingTuple, i - 1)
            /\ c.during[gbc + 1] = getNValue(c.existingTuple, c.columnIndex)
            /\ \A i \in (gbc + 2)..Len(c.before) : c.during[i] = c.before[i]
            /\ Cardinality(c.result) <= 1
            /\ c.result = {} => isNull(c.newValue)
            /\ \A t \in c.result : c.newValue = getNValue(t, 0)
            /\ lastOp = "delete" =>
                  \E vid \in ViewIds : \E t \in destTable[vid] :
                     /\ Handler(vid).m_groupByColumnCount = gbc
                     /\ GroupKey(Handler(vid), t) = GroupKey(Handler(vid), c.existingTuple)
                     /\ getNValue(t, c.columnIndex) = c.newValue
            /\ c.params = c.before

\* C18 witness: a delete ran a fallback query that found an extremum other
\* than the one it replaced
C18_Witness ==
    /\ lastOp = "delete"
    /\ \E k \in 1..Len(ec.log) :
         /\ ~isNull(ec.log[k].newValue)
         /\ ec.log[k].newValue # ec.log[k].during[ec.log[k].groupByColumnCount + 1]
         /\ ec.log[k].groupByColumnCount > 0

\* C19: every fallback min/max query of a delete ran with the source table
\* out of delta mode: what it saw is the whole source table as the delete
\* left it, not the deleted rows alone.
C19_FallbackSeesPostDeleteSource ==
    lastOp = "delete" =>
        \A k \in 1..Len(ec.log) : ec.log[k].visible = sourceTable

\* C19 witness: a delete ran fallback queries while two rows stayed in the
\* source table
C19_Witness ==
    /\ lastOp = "delete"
    /\ Len(ec.log) >= 2
    /\ BagSize(sourceTable) = 2

\* C20: once handleTupleInsert or handleTupleDelete has finished, by return
\* or by an exception of the create-query or of a view-table write, the
\* source table is not in delta mode.
C20_DeltaModeEndsWithHandler ==
    lastOp \in {"insert", "delete", "failed"} => ~ec.deltaMode

\* C21: a delete whose delta row finds no row of its group in a view with
\* group-by columns ends in the fatal error: the view tables are left as they
\* were, no view row is inserted, updated or deleted, and the delta row is
\* not passed over.
C21_MissingViewRowIsFatal ==
    [][ \A r \in AllRows :
          ( /\ sourceTable[r] > 0
            /\ sourceTable' = [sourceTable EXCEPT ![r] = @ - 1]
            /\ \E vid \in ViewIds :
                  /\ Handler(vid).m_groupByColumnCount > 0
                  /\ ~\E t \in destTable[vid] :
                        GroupKey(Handler(vid), t) = << r[1] >> )
          => ( viewFatal' /\ destTable' = destTable ) ]_vars

\* C21 witness: the engine is down by the fatal error of a delete that found
\* no view row for a group the source table still has rows of
C21_Witness ==
    /\ viewFatal
    /\ lastOp = "delete"
    /\ \E r \in AllRows : sourceTable[r] > 0 /\
          ~\E t \in destTable["VG"] : GroupKey(Handler("VG"), t) = << r[1] >>

\* C22: the construction of a handler ends with an error when a destination
\* column after the group-by columns has an aggregate type other than SUM,
\* COUNT, COUNT(*), MIN or MAX, and otherwise leaves the handler with the
\* aggregate types of these columns, in column order.
C22_InstallRejectsOtherAggregates ==
    LET l == reg.last
        five == {"SUM", "COUNT", "COUNT_STAR", "MIN", "MAX"}
    IN  l.h # NoHandler =>
          IF \E i \in 1..Len(l.aggTypes) : l.aggTypes[i] \notin five
          THEN ~l.ok /\ reg.handlers[l.h].state \in {"failed", "destroyed"}
          ELSE /\ l.ok
               /\ reg.handlers[l.h].state \in {"alive", "destroyed"}
               /\ l.m_aggTypes = l.aggTypes

\* C22 witness: a construction failed over a view whose first aggregate
\* column is legal and whose second is not
C22_Witness ==
    /\ reg.last.h # NoHandler
    /\ ~reg.last.ok
    /\ reg.last.aggTypes = << "COUNT_STAR", "AVG" >>
    /\ reg.handlers[reg.last.h].state = "failed"

\* C23: a handler whose construction succeeded has a count-star column
\* index that denotes a COUNT(*) column of the destination table, and that
\* table has exactly one COUNT(*) column: a view with none, or with several,
\* gets no handler.
C23_CountStarColumnRequiredAndUnique ==
    LET l == reg.last
        cs == { i \in 1..Len(l.aggTypes) : l.aggTypes[i] = "COUNT_STAR" }
    IN  (l.h # NoHandler /\ l.ok) =>
          /\ Cardinality(cs) = 1
          /\ \E i \in cs : l.m_countStarColumnIndex = l.gbc + i - 1

\* C24: a source table's handler list holds a live handler, or its
\* replicated wrapper, exactly when the handler's source-table set holds the
\* table; no list holds a handler that no longer exists, or its wrapper.
C24_HandlerListsMatchSourceSets ==
    \A h \in Handlers : \A t \in SourceTables :
        LET listed == << "handler", h >> \in reg.viewHandlers[t]
                      \/ << "wrapper", h >> \in reg.viewHandlers[t]
        IN  /\ reg.handlers[h].state = "alive" =>
                 (listed <=> t \in reg.handlers[h].m_sourceTables)
            /\ reg.handlers[h].state \in {"failed", "destroyed"} => ~listed

\* C25: a thread that is adding a handler to the list of a replicated table,
\* or removing one from it, holds the replicated-resource lock; no two
\* threads are changing the list at the same time; and a thread that has
\* finished its attach or detach does not hold the lock.
C25_ReplicatedListChangesUnderLock ==
    /\ \A e \in reg.mutating : reg.lock = e
    /\ Cardinality(reg.mutating) <= 1
    /\ \A e \in Engines : reg.todo[e] = <<>> => reg.lock # e

\* C25 witness: one engine is changing the list of TR, which holds another
\* engine's wrapper, while a third waits for the lock
C25_Witness ==
    \E e, f, g \in Engines :
        /\ e # f /\ f # g /\ e # g
        /\ e \in reg.mutating
        /\ << "wrapper", f >> \in reg.viewHandlers["TR"]
        /\ reg.todo[g] # <<>> /\ Head(reg.todo[g]) = "lockReplicatedResource"

\* C26: in a notification of the wrappers, each partitioned handler ran with
\* the thread's engine context set to its own partition, and when the
\* notification is over the thread's engine context is the one it was
\* before.
C26_ShimSwitchIsTemporary ==
    reg.shim.kind # "none" =>
        /\ \A k \in 1..Len(reg.shim.ran) :
              reg.shim.ran[k].context = reg.shim.ran[k].partition
        /\ reg.shim.after = reg.shim.before

C28_DispatchAfterWholeMessage ==
    rx.pc = "execute" =>
        /\ rx.expected # <<>>
        /\ rx.msg_size = Len(Head(rx.expected))
        /\ rx.bytesread = rx.msg_size
        /\ SubSeq(rx.data, 1, rx.msg_size) = Head(rx.expected)

\* C28 witness: the second message, larger than the first buffer, is about
\* to be dispatched after more reads than a header and a body
C28_Witness ==
    /\ rx.pc = "execute"
    /\ rx.sent = 2
    /\ Len(rx.expected) = 1
    /\ rx.msg_size > InitialMaxIpcMessageSize
    /\ rx.reads > 3

\* C29: when a write of a reply took fewer bytes than asked, the rest is
\* written again until the host has the whole reply, and the loop does not
\* stop for the write; for every command.
C29_ShortWriteIsRetried ==
    (ipc.cmd # NoCommand /\ ipc.short) =>
        /\ ipc.stop # "write"
        /\ ipc.wire = ipc.asked

\* the same for CowSerializeMore alone, whose reply (behind a possible Error
\* frame) is the one write in a retry loop
CowSerializeMoreRetries ==
    (ipc.cmd = 18 /\ ipc.short /\ Len(ipc.asked) > 3 /\ ipc.asked[1] = kErrorCode_Success) =>
        /\ ipc.stop # "write"
        /\ ipc.wire = ipc.asked

\* C30: a command of execute's own reply (a simple command, or a code
\* outside the switch) that ended in Error, and whose write the host took
\* in full, has put exactly three bytes on the wire, Error and a 16-bit
\* length of 0, and the loop takes that write as a successful reply.
C30_ErrorReplyIsThreeBytesAndAccepted ==
    (/\ ipc.cmd \in SimpleCodes \cup UndoCodes \cup { 9, UnknownCode }
     /\ ipc.result = kErrorCode_Error
     /\ ipc.netOk) =>
        /\ ipc.wire = << kErrorCode_Error, "00", "00" >>
        /\ ipc.stop \notin { "write", "replycheck" }

\* the three bytes alone: what C30 says of the wire holds
ErrorReplyIsThreeBytes ==
    (/\ ipc.cmd \in SimpleCodes \cup UndoCodes \cup { 9, UnknownCode }
     /\ ipc.result = kErrorCode_Error
     /\ ipc.netOk) =>
        ipc.wire = << kErrorCode_Error, "00", "00" >>

\* C31: the parameter input of a batch command with n fragment ids starts
\* right behind the n 8-byte ids and ends exactly at the end of the message,
\* msgsize bytes behind its start.
C31_ParamsRangeEndsAtMessageEnd ==
    query.status = "bound" =>
        /\ query.offset = sizeof_querypfs + sizeof_int64_t * query.numFragmentIds
        /\ query.offset + query.sz = query.msgsize

\* the parameter input ends 4 bytes behind the message for every fragment id
ParamsRangeOverrun ==
    query.status = "bound" =>
        query.offset + query.sz = query.msgsize + 4 * query.numFragmentIds

\* C32: the bytes read into the message buffer never exceed the buffer's
\* capacity, whatever 32-bit msg_size the header carries: larger values
\* grow the buffer first, negative ones lead to no read beyond it.
C32_ReadsStayInBuffer ==
    /\ rx.bytesread <= rx.max_ipc_message_size
    /\ Len(rx.data) = rx.max_ipc_message_size

\* the same for the headers that are not negative
ReadsStayInBufferUnlessNegative ==
    rx.msg_size >= 0 =>
        /\ rx.bytesread <= rx.max_ipc_message_size
        /\ Len(rx.data) = rx.max_ipc_message_size

\* C33: a CowSerializeMore request gets exactly one reply (unless a write
\* fails): an Error frame and nothing else when its buffer size is not
\* below MAX_MSG_SZ - 5, and else the Success reply with the serialized data.
C33_CowRequestGetsOneReply ==
    (ipc.cmd = 18 /\ (ipc.netOk \/ ipc.short)) =>
        IF CowRequestTooLong
        THEN ipc.wire = << kErrorCode_Error, "00", "00" >>
        ELSE ipc.wire = ipc.asked /\ ipc.wire[1] = kErrorCode_Success

\* the same for the requests whose buffer size is below MAX_MSG_SZ - 5
CowRequestInRangeGetsOneReply ==
    (ipc.cmd = 18 /\ (ipc.netOk \/ ipc.short) /\ ~CowRequestTooLong) =>
        ipc.wire = ipc.asked /\ ipc.wire[1] = kErrorCode_Success

\* a request that is too long ends the process where the assert is compiled
\* in, and else the whole Error frame, once written, ends it as well
CowRequestTooLongStops ==
    (ipc.cmd = 18 /\ ipc.netOk /\ CowRequestTooLong) =>
        /\ ipc.stop \in { "assert", "replycheck" }
        /\ ipc.stop = "assert" => ipc.wire = <<>>
        /\ ipc.stop = "replycheck" => ipc.wire = << kErrorCode_Error, "00", "00" >>

\* C34: after a DependencyFound status retrieveDependency returns only a
\* buffer that holds all the announced bytes of the dependency, in order,
\* however the reads split them; a read of 0 or -1 in the data stops the
\* process.
C34_DependencyBufferIsFull ==
    LET d == ipc.dep
    IN  /\ d.result = "data" =>
              /\ d.responseCode = kErrorCode_DependencyFound
              /\ d.bytes = d.dependencyLength
              /\ d.dependencyData = [ i \in 1..d.dependencyLength |-> DepByte(i) ]
        /\ (d.responseCode = kErrorCode_DependencyFound /\ d.pc = "returned") =>
              d.result = "data"
        /\ d.pc = "readData" =>
              /\ d.bytes < d.dependencyLength
              /\ \A i \in 1..d.bytes : d.dependencyData[i] = DepByte(i)

\* C34 witness: a dependency of MaxDepLen bytes was returned after reads of
\* one byte each
C34_Witness ==
    /\ ipc.dep.result = "data"
    /\ ipc.dep.dependencyLength = MaxDepLen
    /\ Len(ipc.dep.trace) = 3 + MaxDepLen
    /\ ipc.dep.dependencyData = [ i \in 1..MaxDepLen |-> DepByte(i) ]

\* C35: every fallback query of a delete ran the k-th plan of the handler's
\* fallback plans, k being the number of MIN or MAX columns in front of the
\* column it was run for, whether or not a fallback ran for these; the plan
\* is the one of that column's aggregate.
C35_FallbackPlanOfColumn ==
    \A k \in 1..Len(ec.log) :
        LET c == ec.log[k]
            h == Handler(CHOOSE vid \in ViewIds :
                           Handler(vid).m_groupByColumnCount = c.groupByColumnCount)
            aggIndex == c.columnIndex - h.m_groupByColumnCount
            preceding == Cardinality({ j \in 1..aggIndex :
                                         h.m_aggTypes[j] \in {AGG_MIN, AGG_MAX} })
        IN  /\ c.minMaxColumnIndex = preceding
            /\ c.plan = m_minMaxExecutorVectors(h)[preceding + 1]
            /\ c.plan.agg = h.m_aggTypes[aggIndex + 1]

\* C35 witness: a delete ran the fallback of a MAX column, the second plan,
\* and none for the MIN column in front of it
C35_Witness ==
    /\ lastOp = "delete"
    /\ \E k \in 1..Len(ec.log) :
         /\ ec.log[k].minMaxColumnIndex = 1
         /\ ec.log[k].plan.agg = AGG_MAX
         /\ \A j \in 1..Len(ec.log) :
               ec.log[j].groupByColumnCount = ec.log[k].groupByColumnCount =>
                   ec.log[j].minMaxColumnIndex = 1

\* a construction of a handler for the view table dest, and what should be
\* true behind it when dest had a handler: the old one is gone from every
\* source table's list, the new one is recorded, and no other handler of
\* dest is alive or listed
ConstructOn(dest) ==
    \E aggTypes \in InstallAggTypeLists, sources \in SourcesFor(dest), ub \in DanglingOutcomes :
        Construct(dest, 1, aggTypes, sources, -1, ub)
ListedIn(r, h) ==
    \E t \in SourceTables : HandlerEntry(h) \in r.viewHandlers[t] \/ WrapperEntry(h) \in r.viewHandlers[t]
HandlerReplaced(dest) ==
    LET old == reg.m_mvHandler[dest]
        new == reg'.m_mvHandler[dest]
    IN  /\ new \notin { old, NoHandler }
        /\ reg'.handlers[old].state # "alive"
        /\ ~ListedIn(reg', old)
        /\ \A h \in Handlers :
              (reg'.handlers[h].dest = dest /\ (reg'.handlers[h].state = "alive" \/ ListedIn(reg', h)))
                  => h = new

\* C36: installing a handler on a view table that has one destroys the old
\* handler, which takes it off the list of each of its source tables, and
\* records and attaches the new one: the table has one handler only.
C36_InstallReplacesHandler ==
    [][\A dest \in DestTables :
          (reg.m_mvHandler[dest] # NoHandler /\ ConstructOn(dest)) => HandlerReplaced(dest)]_vars

\* the same where the handler the table records is a live one
InstallReplacesLiveHandler ==
    [][\A dest \in DestTables :
          (/\ reg.m_mvHandler[dest] # NoHandler
           /\ reg.handlers[reg.m_mvHandler[dest]].state = "alive"
           /\ ConstructOn(dest)) => HandlerReplaced(dest)]_vars

\* C37: when the construction of a handler is rejected for an aggregate
\* type the handler does not maintain, the view table does not record the
\* rejected handler and no source table's list holds it.
C37_RejectedHandlerLeavesNoTrace ==
    [][\A dest \in DestTables :
          (ConstructOn(dest) /\ ~reg'.crashed /\ ~reg'.last.ok) =>
              /\ reg'.m_mvHandler[dest] # reg'.last.h
              /\ ~ListedIn(reg', reg'.last.h)]_vars

\* what a rejected construction leaves: the rejected handler recorded on the
\* view table and listed on each of its source tables, the former handler
\* of the view table destroyed
RejectedHandlerStaysInstalled ==
    [][\A dest \in DestTables :
          (ConstructOn(dest) /\ ~reg'.crashed /\ ~reg'.last.ok) =>
              /\ reg'.m_mvHandler[dest] = reg'.last.h
              /\ reg'.handlers[reg'.last.h].state = "failed"
              /\ \A t \in reg'.handlers[reg'.last.h].m_sourceTables :
                    HandlerEntry(reg'.last.h) \in reg'.viewHandlers[t]
                    \/ WrapperEntry(reg'.last.h) \in reg'.viewHandlers[t]
              /\ reg'.handlers[reg'.last.h].m_sourceTables # {}
              /\ reg.m_mvHandler[dest] # NoHandler =>
                    reg'.handlers[reg.m_mvHandler[dest]].state # "alive"]_vars

\* the calls of updateTupleWithSpecificIndexes that a step makes on view
\* vid, for the delta rows of the create-query
UpdatesOfStep(vid, deltaRows) ==
    IF lastOp' = "insert"
    THEN insertUpdates(vid, destTable[vid], deltaRows)
    ELSE deleteUpdates(vid, destTable[vid], deltaRows, sourceTable')

\* C38: every update of an existing view row, in the insert path and in the
\* delete path, keeps the group-by columns of the row and goes to all the
\* indexes of the view table but the primary-key index; the updated row is
\* in the view afterwards, and every view row that a mutation changed went
\* through such an update.
C38_UpdateKeepsGroupByAndPrimaryIndex ==
    [][ (/\ lastOp' \in { "insert", "delete" }
         /\ sourceTable' # sourceTable
         /\ ~viewFatal') =>
          \A vid \in ViewIds :
           \A delta \in { IF lastOp' = "insert" THEN InsertedRows ELSE DeletedRows } :
            \A deltaRows \in { CreateQuery(Handler(vid), delta) } :
             \A updates \in { UpdatesOfStep(vid, deltaRows) } :
                /\ \A k \in 1..Len(updates) :
                     LET u == updates[k]
                         h == Handler(vid)
                     IN  /\ u.existing \in destTable[vid]
                         /\ u.updated \in destTable'[vid]
                         /\ Len(u.updated) = Len(u.existing)
                         /\ \A c \in 1..h.m_groupByColumnCount :
                              u.updated[c] = u.existing[c]
                         /\ u.indexes = allIndexes(vid) \ { primaryKeyIndex(vid) }
                         /\ primaryKeyIndex(vid) \notin u.indexes
                /\ \A t \in destTable'[vid] \ destTable[vid] :
                     ExistingRows(vid, t) # {} =>
                        \E k \in 1..Len(updates) :
                           /\ updates[k].updated = t
                           /\ updates[k].existing \in ExistingRows(vid, t)
      ]_vars

\* C38 witness: a delete has left two rows of the only group of the view
\* with a group-by column, whose row was updated in place
C38_Witness ==
    /\ lastOp = "delete"
    /\ Cardinality(destTable["VG"]) = 1
    /\ \E t \in destTable["VG"] :
         getNValue(t, Handler("VG").m_countStarColumnIndex) = IntValue(2)

\* C39: when the execution of a fallback min/max plan raises an error, the
\* entries 0..group_by_count of the parameter container keep what the
\* fallback loaded, the group-by key of the row and the extremum in
\* question, and the entries behind them are untouched; the saved values are
\* put back by the calls that return, and only by them.
C39_ThrowingFallbackLeavesParamsLoaded ==
    /\ \A k \in 1..Len(ec.thrown) :
         LET t == ec.thrown[k]
             gbc == t.groupByColumnCount
         IN  /\ lastOp = "failed"
             /\ \A i \in 1..gbc : ec.params[i] = getNValue(t.existingTuple, i - 1)
             /\ ec.params[gbc + 1] = getNValue(t.existingTuple, t.columnIndex)
             /\ \A i \in (gbc + 2)..MaxParams : ec.params[i] = t.before[i]
    /\ \A k \in 1..Len(ec.log) :
         \A i \in 1..MaxParams : ec.log[k].params[i] = ec.log[k].before[i]

\* C39 witness: the fallback of the view with a group-by column raised, and
\* the container holds the loaded values where the saved ones were
C39_Witness ==
    /\ ec.thrown # <<>>
    /\ ec.thrown[1].groupByColumnCount > 0
    /\ \E i \in 1..(ec.thrown[1].groupByColumnCount + 1) :
         ec.params[i] # ec.thrown[1].before[i]

=============================================================================
